---- MODULE Spec2Model ----
(***************************************************************************)
(* Model of the ComfyUI job handler of this repository.                    *)
(*                                                                         *)
(* The repository holds two drafts of the handler:                         *)
(*   src/handler.py      the developed handler (reconnecting monitor,      *)
(*                       best-effort collector); checked under Spec        *)
(*   src/src/handler.py  the earlier draft (no reconnect, no job-id        *)
(*                       filter); checked under SpecDraft                  *)
(*                                                                         *)
(* The backend (HTTP and WebSocket) is the environment: every reply, frame *)
(* and failure it can produce is a nondeterministic choice of an action.   *)
(***************************************************************************)
EXTENDS Integers, Sequences, FiniteSets, TLC

VARIABLES
    pc,              \* position inside handler()
    ws,              \* handler's `ws`: 0 is None, n > 0 the n-th socket object
    socks,           \* socks[n]: state of the n-th socket object bound to ws
    prompt_id,       \* handler's `prompt_id` (None until queued)
    execution_done,  \* handler's `execution_done`
    errors,          \* handler's `errors` list
    output_data,     \* handler's `output_data` list
    attempt,         \* loop variable of _attempt_websocket_reconnect
    bucket,          \* os.environ.get("BUCKET_ENDPOINT_URL") is set
    history,         \* reply of get_history (NoHistory before the query)
    cpos,            \* <<container, image>> position of the collection loops
    result,          \* value returned by handler() (NoResult while running)
    lastRecv,        \* observation: outcome of the latest ws.recv()
    lastProbe,       \* observation: latest _comfy_server_status() in this round
    roundProbes,     \* observation: probes made in the current reconnect round
    roundConnects,   \* observation: connect attempts made in the current round
    disconnects,     \* observation: unexpected closes seen so far
    fetched,         \* observation: the images whose bytes were fetched, and
                     \* whether the sink then returned a URL for them
    probe,           \* locals of the running readiness prober (NoProbe when
                     \* none runs) and, as an observation, its GET outcomes
    input_images,    \* handler's `input_images` while they are still to upload
    staging,         \* locals of the running upload_images (NoStaging when it
                     \* does not run) and, as an observation, its item outcomes
    jobInput,        \* handler's `job_input` while validation reads it
    calls,           \* observation: the requests made to the backend so far:
                     \* replies of POST /prompt, number of GET /history, and
                     \* the ledger positions asked from GET /view
    emitted,         \* observation of the backend in runs of src/handler.py:
                     \* "no" while it has not emitted the job's terminal
                     \* event, "delivered" when the handler received it,
                     \* "lost" when it was emitted with no socket open
    statusCalls      \* the calls of _comfy_server_status() that several
                     \* jobs make side by side: per job the number of calls,
                     \* the reply of the pending GET and the returned dict

vars == <<pc, ws, socks, prompt_id, execution_done, errors, output_data, attempt,
          bucket, history, cpos, result, lastRecv, lastProbe, roundProbes,
          roundConnects, disconnects, fetched, probe, input_images,
          staging, jobInput, calls, emitted, statusCalls>>

(***************************************************************************)
(* Bounds of the model                                                     *)
(***************************************************************************)
\* reconnect budget handed to _attempt_websocket_reconnect (env-configurable)
WEBSOCKET_RECONNECT_ATTEMPTS == 3
\* unexpected closes the environment may produce in one job
MaxDisconnects == 2
\* output containers in the history ledger
MaxContainers == 2
\* assets in the whole ledger
MaxAssets == 2
\* attempts of the readiness prober (500 in the source, scaled down)
COMFY_API_AVAILABLE_MAX_RETRIES == 3
\* seconds wait_for_comfyui waits (120 in the source, scaled down)
WAIT_TIMEOUT == 3
\* images in the job input
MaxInputs == 2
\* jobs that probe side by side, and probes per job
MaxJobs == 2
MaxCalls == 2

None == "None"
JobId == "p1"
OtherJobId == "p2"
Details == {"d1", "d2"}

(***************************************************************************)
(* Frames a socket can deliver (the value returned by ws.recv()).          *)
(*   kind   "binary"     not a str                                         *)
(*          "badjson"    a str json.loads rejects                          *)
(*          "nonobject"  a str holding JSON that is not an object          *)
(*          "object"     a JSON object                                     *)
(*   type   message["type"] (None when the key is absent)                  *)
(*   shape  of message["data"]: "ok" an object, "null" present but not an  *)
(*          object, "absent" no such key                                   *)
(*   node, pid, det   data["node"], data["prompt_id"], and the error text  *)
(*          (node_type, node_id, exception_message) of an execution_error  *)
(***************************************************************************)
Types == {"status", "progress", "executing", "execution_error", "other", None}
DataReadingTypes == {"status", "executing", "execution_error"}

Fr(k, t, s, n, p, d) ==
    [ev |-> "frame", kind |-> k, type |-> t, shape |-> s, node |-> n, pid |-> p, det |-> d]

Frames ==
    {Fr(k, None, "absent", None, None, None) : k \in {"binary", "badjson", "nonobject"}}
    \cup {Fr("object", t, s, None, None, None) : t \in Types, s \in {"ok", "null", "absent"}}
    \cup {Fr("object", "executing", "ok", n, p, None) :
              n \in {None, "n1"}, p \in {JobId, OtherJobId, None}}
    \cup {Fr("object", "execution_error", "ok", None, p, d) :
              p \in {JobId, OtherJobId, None}, d \in Details}

NoRecv == [ev |-> "none", kind |-> None, type |-> None, shape |-> "absent",
           node |-> None, pid |-> None, det |-> None]
RecvTimeout == [NoRecv EXCEPT !.ev = "timeout"]
RecvClosed == [NoRecv EXCEPT !.ev = "closed"]

(***************************************************************************)
(* Results and exceptions                                                  *)
(***************************************************************************)
NoResult == [keys |-> {}, error |-> None, details |-> <<>>, images |-> <<>>,
             errors |-> <<>>, status |-> None]
ErrorResult(msg) == [NoResult EXCEPT !.keys = {"error"}, !.error = msg]
\* mutant: a failure that also carries an images list
ErrorDetails_WithImages(msg, det) ==
    [NoResult EXCEPT !.keys = {"error", "details", "images"}, !.error = msg,
                     !.details = det]

ErrorDetails(msg, det) ==
    [NoResult EXCEPT !.keys = {"error", "details"}, !.error = msg, !.details = det]

Exc(t, m) == [type |-> t, msg |-> m]

\* the except clauses of handler()
ExceptResult(e) ==
    IF e.type = "WebSocketException" THEN ErrorResult("WebSocket communication error")
    ELSE IF e.type = "RequestException"
         THEN ErrorResult("HTTP communication error with ComfyUI")
    ELSE IF e.type = "ValueError" THEN ErrorResult(e.msg)
    ELSE ErrorResult("An unexpected error occurred")

\* mutant: the finally clause closes nothing
Finally_NoClose(s, w) == s

\* the finally clause of handler(): `if ws and ws.connected: ws.close()`
Finally(s, w) ==
    IF w # 0 /\ s[w] = "connected" THEN [s EXCEPT ![w] = "closed"] ELSE s

\* mutant: the exception leaves the handler
Raise_Propagate(e, s, w) ==
    /\ result' = result
    /\ socks' = Finally(s, w)
    /\ ws' = w
    /\ pc' = "raised"

\* an exception e leaves the try block: except clause, finally clause, return
Raise(e, s, w) ==
    /\ result' = ExceptResult(e)
    /\ socks' = Finally(s, w)
    /\ ws' = w
    /\ pc' = "done"

\* a return statement inside the try block: finally clause, return
Return(res) ==
    /\ result' = res
    /\ socks' = Finally(socks, ws)
    /\ ws' = ws
    /\ pc' = "done"

(***************************************************************************)
(* Error-list entries                                                      *)
(***************************************************************************)
Err(k, c, i, d) == [kind |-> k, c |-> c, i |-> i, det |-> d]

(***************************************************************************)
(* The readiness prober: check_server(url, retries, delay)                 *)
(***************************************************************************)
\* no prober is running
NoProbe == [fn |-> "none", limit |-> 0, i |-> 0, replies |-> <<>>, ret |-> "none"]

\* outcomes of one liveness GET: status 200, another status, requests.Timeout,
\* connection refused, any other requests.RequestException
GetReplies == {"200", "status", "timeout", "refused", "request_error"}

\* the call check_server(url, retries): `for i in range(retries)` falls
\* through to `return False` at once when retries is 0
CallCheckServer(retries) ==
    [fn |-> "check_server", limit |-> retries, i |-> 0, replies |-> <<>>,
     ret |-> IF retries = 0 THEN "false" ELSE "none"]

\* mutant: a timeout is surfaced instead of swallowed
check_server_Surface(p, reply) ==
    IF reply = "200"
    THEN [p EXCEPT !.replies = Append(@, reply), !.ret = "true"]
    ELSE IF reply = "timeout"
    THEN [p EXCEPT !.replies = Append(@, reply), !.ret = "raised"]
    ELSE [p EXCEPT !.replies = Append(@, reply), !.i = @ + 1,
                   !.ret = IF p.i + 1 = p.limit THEN "false" ELSE "none"]

\* mutant: one pass more than retries
check_server_OneMore(p, reply) ==
    IF reply = "200"
    THEN [p EXCEPT !.replies = Append(@, reply), !.ret = "true"]
    ELSE [p EXCEPT !.replies = Append(@, reply), !.i = @ + 1,
                   !.ret = IF p.i + 1 = p.limit + 1 THEN "false" ELSE "none"]

\* one pass of the loop of check_server with the GET answering `reply`:
\* return True on 200; otherwise swallow, sleep, and return False after the
\* last pass
check_server(p, reply) ==
    IF reply = "200"
    THEN [p EXCEPT !.replies = Append(@, reply), !.ret = "true"]
    ELSE [p EXCEPT !.replies = Append(@, reply), !.i = @ + 1,
                   !.ret = IF p.i + 1 = p.limit THEN "false" ELSE "none"]

CheckServerGet ==
    /\ pc = "check_server"
    /\ probe.ret = "none"
    /\ \E reply \in GetReplies : probe' = check_server(probe, reply)
    /\ UNCHANGED <<pc, ws, socks, prompt_id, execution_done, errors, output_data,
                   attempt, bucket, history, cpos, result, lastRecv, lastProbe,
                   roundProbes, roundConnects, disconnects, fetched, input_images,
                   staging, jobInput, calls, emitted, statusCalls>>

(***************************************************************************)
(* Input validation and staging                                            *)
(***************************************************************************)
\* no upload_images is running; ret is the dict it returns
NoReturn == [status |-> "none", message |-> None, details |-> <<>>]
NoStaging == [k |-> 0, responses |-> <<>>, upload_errors |-> <<>>, outs |-> <<>>,
              ret |-> NoReturn]

\* no request has been made
NoCalls == [prompt |-> <<>>, history |-> 0, view |-> <<>>]

\* job_input is not read (any more)
NoJobInput == [form |-> "unread", workflow |-> FALSE, images |-> "absent",
               items |-> <<>>]

\* an item of an "images" list that passes validate_input: "b64" / "not_b64"
\* an object whose data decodes as base64 or not, "str" a value that is not an
\* object but answers both `in` tests (a string holding "name" and "image")
ItemKinds == {"b64", "not_b64", "str"}
ImageLists == UNION {[1..k -> ItemKinds] : k \in 0..MaxInputs}

\* job["input"]["fill.json"]:
\*   form      "missing_key" the lookup raises KeyError, "none" None,
\*             "badjson_str" a str that is not JSON, "nonobject_str" a str
\*             holding JSON that is not an object, "nondict" another value
\*             without .get, "object_str" / "dict" an object
\*   workflow  the object has a "workflow"
\*   images    "absent", "notlist", "baditem" (an item is an object that lacks
\*             name or image), "noniterable_item" (an item on which `in` raises
\*             TypeError, as a number), or "list", with the list in items
NoImages == [given |-> FALSE, items |-> <<>>]
ImagesGiven(s) == [given |-> TRUE, items |-> s]

JobInputs ==
    {[form |-> f, workflow |-> FALSE, images |-> "absent", items |-> <<>>] :
        f \in {"missing_key", "none", "badjson_str", "nonobject_str", "nondict"}}
    \cup [form : {"object_str", "dict"}, workflow : BOOLEAN,
          images : {"absent", "notlist", "baditem", "noniterable_item"},
          items : {<<>>}]
    \cup [form : {"object_str", "dict"}, workflow : BOOLEAN,
          images : {"list"}, items : ImageLists]

\* validate_input(job_input): the returned pair (data, err), or raised when an
\* exception leaves the function; `given` tells whether data is None or a dict
validate_input(job_input) ==
    IF job_input.form = "none"
    THEN [given |-> FALSE, data |-> [images |-> NoImages],
          err |-> "Please provide input", raised |-> FALSE]
    ELSE IF job_input.form = "badjson_str"
    THEN [given |-> FALSE, data |-> [images |-> NoImages],
          err |-> "Invalid JSON format in input", raised |-> FALSE]
    ELSE IF job_input.form \in {"nonobject_str", "nondict"}
    THEN [given |-> FALSE, data |-> [images |-> NoImages], err |-> None,
          raised |-> TRUE]
    ELSE IF ~job_input.workflow
    THEN [given |-> FALSE, data |-> [images |-> NoImages],
          err |-> "Missing 'workflow' parameter", raised |-> FALSE]
    ELSE IF job_input.images \in {"notlist", "baditem"}
    THEN [given |-> FALSE, data |-> [images |-> NoImages],
          err |-> "'images' must be a list of objects with 'name' and 'image' keys",
          raised |-> FALSE]
    ELSE IF job_input.images = "noniterable_item"
    THEN [given |-> FALSE, data |-> [images |-> NoImages], err |-> None,
          raised |-> TRUE]
    ELSE [given |-> TRUE,
          data |-> [images |-> IF job_input.images = "absent" THEN NoImages
                               ELSE ImagesGiven(job_input.items)],
          err |-> None, raised |-> FALSE]

\* handler(): read the input, validate it, then call check_server
Validate ==
    /\ pc = "validate"
    /\ \E job_input \in JobInputs :
         /\ jobInput' = job_input
         /\ IF job_input.form = "missing_key" \/ validate_input(job_input).raised
            THEN /\ pc' = "raised"
                 /\ UNCHANGED <<result, input_images, probe>>
            ELSE IF validate_input(job_input).err # None
            THEN /\ result' = ErrorResult(validate_input(job_input).err)
                 /\ pc' = "done"
                 /\ UNCHANGED <<input_images, probe>>
            ELSE /\ input_images' = validate_input(job_input).data.images
                 /\ probe' = CallCheckServer(COMFY_API_AVAILABLE_MAX_RETRIES)
                 /\ pc' = "check_server"
                 /\ UNCHANGED result
    /\ UNCHANGED <<ws, socks, prompt_id, execution_done, errors, output_data, attempt,
                   bucket, history, cpos, lastRecv, lastProbe, roundProbes,
                   roundConnects, disconnects, fetched, staging, calls, emitted, statusCalls>>

\* mutant: the prober's answer is not a gate
CheckServerReturn_NoGate ==
    /\ pc = "check_server"
    /\ probe.ret # "none"
    /\ probe' = NoProbe
    /\ jobInput' = NoJobInput
    /\ pc' = "upload"
    /\ UNCHANGED result
    /\ UNCHANGED <<ws, socks, prompt_id, execution_done, errors, output_data, attempt,
                   bucket, history, cpos, lastRecv, lastProbe, roundProbes,
                   roundConnects, disconnects, fetched, input_images, staging, calls, emitted, statusCalls>>

\* `if not check_server(...)`: the prober has returned and its locals are gone
CheckServerReturn ==
    /\ pc = "check_server"
    /\ probe.ret # "none"
    /\ probe' = NoProbe
    /\ jobInput' = NoJobInput
    /\ IF probe.ret = "false"
       THEN /\ result' = ErrorResult("ComfyUI server not reachable after multiple retries")
            /\ pc' = "done"
       ELSE /\ pc' = "upload"
            /\ UNCHANGED result
    /\ UNCHANGED <<ws, socks, prompt_id, execution_done, errors, output_data, attempt,
                   bucket, history, cpos, lastRecv, lastProbe, roundProbes,
                   roundConnects, disconnects, fetched, input_images, staging, calls, emitted, statusCalls>>

\* what happens to one item of upload_images: "decode_error" when its data is
\* not base64, else the outcome o of the POST to /upload/image
UploadOutcomes == {"ok", "timeout", "request_error", "unexpected"}
ItemOutcome(item, o) == IF item = "not_b64" THEN "decode_error" ELSE o

\* upload_images(images) is entered: `if not images` returns at once
CallUploadImages(images) ==
    IF images = <<>>
    THEN [NoStaging EXCEPT !.ret = [status |-> "success",
                                    message |-> "No images to upload",
                                    details |-> <<>>]]
    ELSE [NoStaging EXCEPT !.k = 1]

\* mutant: the first failing item ends the loop
upload_images_StopAtFailure(st, images, o) ==
    LET out == ItemOutcome(images[st.k], o)
        resp == IF out = "ok"
                THEN Append(st.responses, Err("uploaded", 0, st.k, None))
                ELSE st.responses
        errs == IF out = "ok" THEN st.upload_errors
                ELSE Append(st.upload_errors, Err(out, 0, st.k, None))
    IN [k |-> st.k + 1, responses |-> resp, upload_errors |-> errs,
        outs |-> Append(st.outs, out),
        ret |-> IF st.k < Len(images) /\ out = "ok" THEN NoReturn
                ELSE IF errs # <<>>
                THEN [status |-> "error", message |-> "Some images failed to upload",
                      details |-> errs]
                ELSE [status |-> "success",
                      message |-> "All images uploaded successfully",
                      details |-> resp]]

\* upload_images: one pass of `for image in images` over images[st.k] when the
\* POST answers o, and the return statement once the list is exhausted
upload_images(st, images, o) ==
    LET out == ItemOutcome(images[st.k], o)
        resp == IF out = "ok"
                THEN Append(st.responses, Err("uploaded", 0, st.k, None))
                ELSE st.responses
        errs == IF out = "ok" THEN st.upload_errors
                ELSE Append(st.upload_errors, Err(out, 0, st.k, None))
    IN [k |-> st.k + 1, responses |-> resp, upload_errors |-> errs,
        outs |-> Append(st.outs, out),
        ret |-> IF st.k < Len(images) THEN NoReturn
                ELSE IF errs # <<>>
                THEN [status |-> "error", message |-> "Some images failed to upload",
                      details |-> errs]
                ELSE [status |-> "success",
                      message |-> "All images uploaded successfully",
                      details |-> resp]]

\* `if input_images: upload_result = upload_images(input_images)`
UploadImagesCall ==
    /\ pc = "upload"
    /\ IF ~input_images.given \/ input_images.items = <<>>
       THEN /\ pc' = "connect"
            /\ input_images' = NoImages
            /\ UNCHANGED staging
       ELSE /\ pc' = "upload_images"
            /\ staging' = CallUploadImages(input_images.items)
            /\ UNCHANGED input_images
    /\ UNCHANGED <<ws, socks, prompt_id, execution_done, errors, output_data, attempt,
                   bucket, history, cpos, result, lastRecv, lastProbe, roundProbes,
                   roundConnects, disconnects, fetched, probe, jobInput, calls, emitted, statusCalls>>

\* one item of the list. On an item that is not an object, image["name"] raises
\* TypeError, and image.get in the `except Exception` clause raises
\* AttributeError, which leaves upload_images and the handler.
UploadImagesItem ==
    /\ pc = "upload_images"
    /\ staging.ret.status = "none"
    /\ IF input_images.items[staging.k] = "str"
       THEN /\ pc' = "raised"
            /\ staging' = NoStaging
            /\ input_images' = NoImages
       ELSE /\ \E o \in UploadOutcomes :
                 staging' = upload_images(staging, input_images.items, o)
            /\ UNCHANGED <<pc, input_images>>
    /\ UNCHANGED <<ws, socks, prompt_id, execution_done, errors, output_data, attempt,
                   bucket, history, cpos, result, lastRecv, lastProbe, roundProbes,
                   roundConnects, disconnects, fetched, probe, jobInput, calls, emitted, statusCalls>>

\* `if upload_result["status"] == "error": return {...}`; upload_images has
\* returned, its locals are gone and the list is not read again
UploadImagesReturn ==
    /\ pc = "upload_images"
    /\ staging.ret.status # "none"
    /\ staging' = NoStaging
    /\ input_images' = NoImages
    /\ IF staging.ret.status = "error"
       THEN /\ result' = ErrorDetails("Failed to upload one or more input images",
                                      staging.ret.details)
            /\ pc' = "done"
       ELSE /\ pc' = "connect"
            /\ UNCHANGED result
    /\ UNCHANGED <<ws, socks, prompt_id, execution_done, errors, output_data, attempt,
                   bucket, history, cpos, lastRecv, lastProbe, roundProbes,
                   roundConnects, disconnects, fetched, probe, jobInput, calls, emitted, statusCalls>>

\* the jobs of one deployment; no call of _comfy_server_status is under way
Jobs == 1..MaxJobs
NoSrvStatus == [raised |-> FALSE, reachable |-> FALSE, keys |-> {}]
NoStatusCall == [phase |-> "idle", n |-> 0, reply |-> "none", ret |-> NoSrvStatus]
NoStatusCalls == [j \in Jobs |-> NoStatusCall]

\* `history` before the query; reply is what GET /history answered: "error",
\* "absent" (no entry for the prompt id) or "present"
NoHistory == [reply |-> "none", outputs |-> <<>>, save |-> {}, lerr |-> FALSE]

Init ==
    /\ pc = "validate"
    /\ ws = 0
    /\ socks = <<>>
    /\ prompt_id = None
    /\ execution_done = FALSE
    /\ errors = <<>>
    /\ output_data = <<>>
    /\ attempt = 0
    /\ bucket \in BOOLEAN
    /\ history = NoHistory
    /\ cpos = <<1, 1>>
    /\ result = NoResult
    /\ lastRecv = NoRecv
    /\ lastProbe = "none"
    /\ roundProbes = 0
    /\ roundConnects = 0
    /\ disconnects = 0
    /\ fetched = {}
    /\ probe = NoProbe
    /\ input_images = NoImages
    /\ staging = NoStaging
    /\ calls = NoCalls
    /\ jobInput = NoJobInput
    /\ emitted = "no"
    /\ statusCalls = NoStatusCalls

(***************************************************************************)
(* Establish the WebSocket connection                                      *)
(***************************************************************************)
\* mutant: a failed connect is swallowed and the handler goes on
Connect_GoesOn ==
    /\ pc = "connect"
    /\ \E outcome \in {"connected", "WebSocketException", "Exception"} :
         LET s == Append(socks, IF outcome = "connected" THEN "connected"
                                ELSE "unconnected")
             w == Len(s)
         IN /\ socks' = s
            /\ ws' = w
            /\ pc' = "queue"
            /\ UNCHANGED result
    /\ UNCHANGED <<prompt_id, execution_done, errors, output_data, attempt, bucket,
                   history, cpos, lastRecv, lastProbe, roundProbes, roundConnects,
                   disconnects, fetched>>
    /\ UNCHANGED <<probe, input_images, staging, calls, jobInput, emitted, statusCalls>>

Connect ==
    /\ pc = "connect"
    /\ \E outcome \in {"connected", "WebSocketException", "Exception"} :
         LET s == Append(socks, IF outcome = "connected" THEN "connected"
                                ELSE "unconnected")
             w == Len(s)
         IN IF outcome = "connected"
            THEN /\ socks' = s
                 /\ ws' = w
                 /\ pc' = "queue"
                 /\ UNCHANGED result
            ELSE Raise(Exc(outcome, "connect failed"), s, w)
    /\ UNCHANGED <<prompt_id, execution_done, errors, output_data, attempt, bucket,
                   history, cpos, lastRecv, lastProbe, roundProbes, roundConnects,
                   disconnects, fetched>>
    /\ UNCHANGED <<probe, input_images, staging, calls, jobInput, emitted, statusCalls>>

(***************************************************************************)
(* Queue the workflow                                                      *)
(***************************************************************************)
\* replies of POST /prompt: 200 with an object holding a prompt_id ("id"), no
\* prompt_id or an empty one; 400 with a body that holds node_errors, holds
\* none, holds node_errors under a top-level type
\* prompt_outputs_failed_validation, is not JSON, or is JSON but no object;
\* another 4xx with a structured error body; 5xx; no reply in time; a
\* connection that is reset
QueueReplies == {"id", "no_id", "empty_id", "400_nodes", "400_plain", "400_type_nodes",
                 "400_unparsable", "400_nonobject", "4xx", "5xx", "timeout", "reset"}

\* the exception classes derived from requests.RequestException
RequestExceptions == {"RequestException", "HTTPError", "Timeout", "ConnectionError"}

\* queue_workflow: the returned prompt_id, or the exception it raises
queue_workflow(reply) ==
    IF reply = "id" THEN [ok |-> TRUE, prompt_id |-> JobId, exc |-> Exc(None, None)]
    ELSE IF reply = "no_id" THEN [ok |-> TRUE, prompt_id |-> None, exc |-> Exc(None, None)]
    ELSE IF reply = "empty_id" THEN [ok |-> TRUE, prompt_id |-> "", exc |-> Exc(None, None)]
    ELSE IF reply = "400_nodes"
         THEN [ok |-> FALSE, prompt_id |-> None,
               exc |-> Exc("ValueError", "Workflow validation failed: node errors")]
    ELSE IF reply = "400_plain"
         THEN [ok |-> FALSE, prompt_id |-> None,
               exc |-> Exc("ValueError", "Workflow validation failed. Raw response")]
    ELSE IF reply = "400_type_nodes"
         THEN [ok |-> FALSE, prompt_id |-> None,
               exc |-> Exc("ValueError",
                           "Workflow validation failed. A required model or parameter is not available")]
    ELSE IF reply = "400_unparsable"
         THEN [ok |-> FALSE, prompt_id |-> None,
               exc |-> Exc("ValueError",
                           "ComfyUI validation failed (could not parse error response)")]
    ELSE IF reply = "400_nonobject"
         THEN [ok |-> FALSE, prompt_id |-> None, exc |-> Exc("AttributeError", "get")]
    ELSE IF reply = "timeout"
         THEN [ok |-> FALSE, prompt_id |-> None, exc |-> Exc("Timeout", reply)]
    ELSE IF reply = "reset"
         THEN [ok |-> FALSE, prompt_id |-> None, exc |-> Exc("ConnectionError", reply)]
    ELSE [ok |-> FALSE, prompt_id |-> None, exc |-> Exc("HTTPError", reply)]

\* the exception that leaves the handler's `try: queued_workflow = ...` block
\* when queue_workflow answered q
QueueError(q) ==
    IF q.ok THEN Exc("ValueError", "Missing 'prompt_id' in queue response")
    ELSE IF q.exc.type \in RequestExceptions
         THEN Exc("ValueError", "Error queuing workflow")
    ELSE IF q.exc.type = "ValueError" THEN q.exc
    ELSE Exc("ValueError", "Unexpected error queuing workflow")

\* mutant: a failed request is sent once more
Queue_RetryOnce ==
    /\ pc = "queue"
    /\ \E reply \in QueueReplies :
         LET q == queue_workflow(reply) IN
         /\ calls' = [calls EXCEPT !.prompt = Append(@, reply)]
         /\ IF q.ok /\ q.prompt_id \notin {None, ""}
            THEN /\ prompt_id' = q.prompt_id
                 /\ pc' = "listen"
                 /\ UNCHANGED <<result, socks, ws>>
            ELSE IF ~q.ok /\ q.exc.type \in RequestExceptions /\ calls.prompt = <<>>
            THEN UNCHANGED <<prompt_id, pc, result, socks, ws>>
            ELSE /\ prompt_id' = (IF q.ok THEN q.prompt_id ELSE prompt_id)
                 /\ Raise(QueueError(q), socks, ws)
    /\ UNCHANGED <<execution_done, errors, output_data, attempt, bucket, history, cpos,
                   lastRecv, lastProbe, roundProbes, roundConnects, disconnects, fetched>>
    /\ UNCHANGED <<probe, input_images, staging, jobInput, emitted, statusCalls>>

\* mutant: a response without a prompt_id is not checked
Queue_NoIdGoesOn ==
    /\ pc = "queue"
    /\ \E reply \in QueueReplies :
         LET q == queue_workflow(reply) IN
         /\ calls' = [calls EXCEPT !.prompt = Append(@, reply)]
         /\ IF q.ok
            THEN /\ prompt_id' = q.prompt_id
                 /\ pc' = "listen"
                 /\ UNCHANGED <<result, socks, ws>>
            ELSE /\ prompt_id' = prompt_id
                 /\ Raise(QueueError(q), socks, ws)
    /\ UNCHANGED <<execution_done, errors, output_data, attempt, bucket, history, cpos,
                   lastRecv, lastProbe, roundProbes, roundConnects, disconnects, fetched>>
    /\ UNCHANGED <<probe, input_images, staging, jobInput, emitted, statusCalls>>

Queue ==
    /\ pc = "queue"
    /\ \E reply \in QueueReplies :
         LET q == queue_workflow(reply) IN
         /\ calls' = [calls EXCEPT !.prompt = Append(@, reply)]
         /\ IF q.ok /\ q.prompt_id \notin {None, ""}
            THEN /\ prompt_id' = q.prompt_id
                 /\ pc' = "listen"
                 /\ UNCHANGED <<result, socks, ws>>
            ELSE /\ prompt_id' = (IF q.ok THEN q.prompt_id ELSE prompt_id)
                 /\ Raise(QueueError(q), socks, ws)
    /\ UNCHANGED <<execution_done, errors, output_data, attempt, bucket, history, cpos,
                   lastRecv, lastProbe, roundProbes, roundConnects, disconnects, fetched>>
    /\ UNCHANGED <<probe, input_images, staging, jobInput, emitted, statusCalls>>

(***************************************************************************)
(* Wait for execution completion via WebSocket                             *)
(***************************************************************************)
\* f is the terminal event the backend emits for job pid, once: its
\* 'executing' frame with node None or its execution_error
OwnTerminalEvent(f, pid) ==
    /\ f.kind = "object" /\ f.shape = "ok" /\ f.pid = pid
    /\ \/ f.type = "executing" /\ f.node = None
       \/ f.type = "execution_error"

\* What the body of the monitoring loop does with a received frame f while the
\* job's id is pid: "continue", "complete" (execution_done, break), "error"
\* (errors.append, break) or "raise" (an exception no clause of the inner try
\* catches: AttributeError of .get on a value that is not a dict).
MsgEffect(f, pid) ==
    IF f.kind = "binary" THEN "continue"
    ELSE IF f.kind = "badjson" THEN "continue"
    ELSE IF f.kind = "nonobject" THEN "raise"
    ELSE IF f.type \in DataReadingTypes /\ f.shape = "null" THEN "raise"
    ELSE IF f.type = "executing"
         THEN IF f.node = None /\ f.pid = pid THEN "complete" ELSE "continue"
    ELSE IF f.type = "execution_error"
         THEN IF f.pid = pid THEN "error" ELSE "continue"
    ELSE "continue"

\* the check after the loop, then on to the history query
AfterLoop(done, errs) ==
    IF ~done /\ errs = <<>>
    THEN Raise(Exc("ValueError", "Workflow monitoring loop exited without confirmation"),
               socks, ws)
    ELSE /\ pc' = "history"
         /\ UNCHANGED <<result, socks, ws>>

\* mutant: the execution_error branch breaks without recording the error
RecvFrame_BreakUnrecorded ==
    /\ pc = "listen"
    /\ \E f \in Frames :
         LET eff == MsgEffect(f, prompt_id) IN
         /\ OwnTerminalEvent(f, prompt_id) => emitted = "no"
         /\ emitted' = (IF OwnTerminalEvent(f, prompt_id) THEN "delivered" ELSE emitted)
         /\ lastRecv' = f
         /\ IF eff = "continue"
            THEN UNCHANGED <<pc, result, socks, ws, execution_done, errors>>
            ELSE IF eff = "complete"
            THEN /\ execution_done' = TRUE
                 /\ UNCHANGED errors
                 /\ AfterLoop(TRUE, errors)
            ELSE IF eff = "error"
            THEN /\ UNCHANGED <<errors, execution_done>>
                 /\ AfterLoop(execution_done, errors)
            ELSE /\ Raise(Exc("Exception", "AttributeError"), socks, ws)
                 /\ UNCHANGED <<execution_done, errors>>
    /\ UNCHANGED <<prompt_id, output_data, attempt, bucket, history, cpos, lastProbe,
                   roundProbes, roundConnects, disconnects, fetched>>
    /\ UNCHANGED <<probe, input_images, staging, calls, jobInput, statusCalls>>

RecvFrame ==
    /\ pc = "listen"
    /\ \E f \in Frames :
         LET eff == MsgEffect(f, prompt_id) IN
         /\ OwnTerminalEvent(f, prompt_id) => emitted = "no"
         /\ emitted' = (IF OwnTerminalEvent(f, prompt_id) THEN "delivered" ELSE emitted)
         /\ lastRecv' = f
         /\ IF eff = "continue"
            THEN UNCHANGED <<pc, result, socks, ws, execution_done, errors>>
            ELSE IF eff = "complete"
            THEN /\ execution_done' = TRUE
                 /\ UNCHANGED errors
                 /\ AfterLoop(TRUE, errors)
            ELSE IF eff = "error"
            THEN /\ errors' = Append(errors, Err("execution", 0, 0, f.det))
                 /\ UNCHANGED execution_done
                 /\ AfterLoop(execution_done, errors')
            ELSE /\ Raise(Exc("Exception", "AttributeError"), socks, ws)
                 /\ UNCHANGED <<execution_done, errors>>
    /\ UNCHANGED <<prompt_id, output_data, attempt, bucket, history, cpos, lastProbe,
                   roundProbes, roundConnects, disconnects, fetched>>
    /\ UNCHANGED <<probe, input_images, staging, calls, jobInput, statusCalls>>

\* mutant: a timeout ends the job
RecvTimeoutStep_Abort ==
    /\ pc = "listen"
    /\ lastRecv' = RecvTimeout
    /\ Raise(Exc("WebSocketException", "timed out"), socks, ws)
    /\ UNCHANGED <<prompt_id, execution_done, errors, output_data,
                   attempt, bucket, history, cpos, lastProbe, roundProbes,
                   roundConnects, disconnects, fetched>>
    /\ UNCHANGED <<probe, input_images, staging, calls, jobInput, emitted, statusCalls>>

\* websocket.WebSocketTimeoutException: print and poll again
RecvTimeoutStep ==
    /\ pc = "listen"
    /\ lastRecv' = RecvTimeout
    /\ UNCHANGED <<pc, ws, socks, prompt_id, execution_done, errors, output_data,
                   attempt, bucket, history, cpos, result, lastProbe, roundProbes,
                   roundConnects, disconnects, fetched>>
    /\ UNCHANGED <<probe, input_images, staging, calls, jobInput, emitted, statusCalls>>

\* the exception _attempt_websocket_reconnect raises when its loop runs out
ReconnectExhausted == Exc("WebSocketException", "Connection closed and failed to reconnect")
ReconnectUnreachable ==
    Exc("WebSocketException", "ComfyUI HTTP unreachable during websocket reconnect")

\* mutant: the attempt counter is kept from the previous reconnect round
RecvClosedStep_KeepAttempt ==
    /\ pc = "listen"
    /\ disconnects < MaxDisconnects
    /\ lastRecv' = RecvClosed
    /\ disconnects' = disconnects + 1
    /\ attempt' = attempt
    /\ lastProbe' = "none"
    /\ roundProbes' = 0
    /\ roundConnects' = 0
    /\ IF WEBSOCKET_RECONNECT_ATTEMPTS > 0
       THEN /\ socks' = [socks EXCEPT ![ws] = "closed"]
            /\ pc' = "reconnect"
            /\ UNCHANGED <<ws, result>>
       ELSE Raise(ReconnectExhausted, [socks EXCEPT ![ws] = "closed"], ws)
    /\ UNCHANGED <<prompt_id, execution_done, errors, output_data, bucket, history,
                   cpos, fetched>>
    /\ UNCHANGED <<probe, input_images, staging, calls, jobInput, emitted, statusCalls>>

\* websocket.WebSocketConnectionClosedException: the library has marked the
\* socket object closed; _attempt_websocket_reconnect starts with attempt 0
RecvClosedStep ==
    /\ pc = "listen"
    /\ disconnects < MaxDisconnects
    /\ lastRecv' = RecvClosed
    /\ disconnects' = disconnects + 1
    /\ attempt' = 0
    /\ lastProbe' = "none"
    /\ roundProbes' = 0
    /\ roundConnects' = 0
    /\ IF WEBSOCKET_RECONNECT_ATTEMPTS > 0
       THEN /\ socks' = [socks EXCEPT ![ws] = "closed"]
            /\ pc' = "reconnect"
            /\ UNCHANGED <<ws, result>>
       ELSE Raise(ReconnectExhausted, [socks EXCEPT ![ws] = "closed"], ws)
    /\ UNCHANGED <<prompt_id, execution_done, errors, output_data, bucket, history,
                   cpos, fetched>>
    /\ UNCHANGED <<probe, input_images, staging, calls, jobInput, emitted, statusCalls>>

\* replies of GET / used by _comfy_server_status
ProbeReplies == {"200", "other_status", "exception"}

\* mutant: a failing request is not caught
comfy_server_status_Raises(reply) ==
    IF reply = "exception"
    THEN [raised |-> TRUE, reachable |-> FALSE, keys |-> {}]
    ELSE [raised |-> FALSE, reachable |-> (reply = "200"),
          keys |-> {"reachable", "status_code"}]

\* _comfy_server_status(): the dict it returns when GET / answers `reply`;
\* `except Exception` turns every failure of the request into a dict
comfy_server_status(reply) ==
    IF reply = "exception"
    THEN [raised |-> FALSE, reachable |-> FALSE, keys |-> {"reachable", "error"}]
    ELSE [raised |-> FALSE, reachable |-> (reply = "200"),
          keys |-> {"reachable", "status_code"}]

\* job j calls _comfy_server_status(): requests.get(...) is sent and answered
StatusGet(j) ==
    /\ pc = "comfy_server_status"
    /\ statusCalls[j].phase \in {"idle", "returned"}
    /\ statusCalls[j].n < MaxCalls
    /\ \E reply \in ProbeReplies :
         statusCalls' = [statusCalls EXCEPT ![j] =
                           [phase |-> "pending", n |-> @.n + 1, reply |-> reply,
                            ret |-> NoSrvStatus]]
    /\ UNCHANGED <<pc, ws, socks, prompt_id, execution_done, errors, output_data,
                   attempt, bucket, history, cpos, result, lastRecv, lastProbe,
                   roundProbes, roundConnects, disconnects, fetched, probe,
                   input_images, staging, jobInput, calls, emitted>>

\* the call of job j returns its dict
StatusReturn(j) ==
    /\ pc = "comfy_server_status"
    /\ statusCalls[j].phase = "pending"
    /\ statusCalls' = [statusCalls EXCEPT ![j].phase = "returned",
                                          ![j].ret = comfy_server_status(statusCalls[j].reply)]
    /\ UNCHANGED <<pc, ws, socks, prompt_id, execution_done, errors, output_data,
                   attempt, bucket, history, cpos, result, lastRecv, lastProbe,
                   roundProbes, roundConnects, disconnects, fetched, probe,
                   input_images, staging, jobInput, calls, emitted>>

\* mutant: the probe's answer is ignored
ReconnectProbe_NoAbort ==
    /\ pc = "reconnect"
    /\ \E reply \in ProbeReplies :
         LET srv_status == comfy_server_status(reply) IN
         /\ lastProbe' = (IF srv_status.reachable THEN "reachable" ELSE "unreachable")
         /\ roundProbes' = roundProbes + 1
         /\ pc' = "reconnect_connect"
         /\ UNCHANGED <<result, socks, ws>>
    /\ UNCHANGED <<prompt_id, execution_done, errors, output_data, attempt, bucket,
                   history, cpos, lastRecv, roundConnects, disconnects, fetched>>
    /\ UNCHANGED <<probe, input_images, staging, calls, jobInput, emitted, statusCalls>>

\* top of the reconnect loop: probe, and bail out when ComfyUI is down
ReconnectProbe ==
    /\ pc = "reconnect"
    /\ \E reply \in ProbeReplies :
         LET srv_status == comfy_server_status(reply) IN
         /\ lastProbe' = (IF srv_status.reachable THEN "reachable" ELSE "unreachable")
         /\ roundProbes' = roundProbes + 1
         /\ IF ~srv_status.reachable
            THEN Raise(ReconnectUnreachable, socks, ws)
            ELSE /\ pc' = "reconnect_connect"
                 /\ UNCHANGED <<result, socks, ws>>
    /\ UNCHANGED <<prompt_id, execution_done, errors, output_data, attempt, bucket,
                   history, cpos, lastRecv, roundConnects, disconnects, fetched>>
    /\ UNCHANGED <<probe, input_images, staging, calls, jobInput, emitted, statusCalls>>

\* mutant: one attempt more than the budget
ReconnectConnect_OneMore ==
    /\ pc = "reconnect_connect"
    /\ roundConnects' = roundConnects + 1
    /\ \E connected \in BOOLEAN :
         IF connected
         THEN /\ socks' = Append(socks, "connected")
              /\ ws' = Len(socks) + 1
              /\ pc' = "listen"
              /\ UNCHANGED <<result, attempt>>
         ELSE /\ attempt' = attempt + 1
              /\ IF attempt + 1 <= WEBSOCKET_RECONNECT_ATTEMPTS
                 THEN /\ pc' = "reconnect"
                      /\ UNCHANGED <<result, socks, ws>>
                 ELSE Raise(ReconnectExhausted, socks, ws)
    /\ UNCHANGED <<prompt_id, execution_done, errors, output_data, bucket, history,
                   cpos, lastRecv, lastProbe, roundProbes, disconnects, fetched>>
    /\ UNCHANGED <<probe, input_images, staging, calls, jobInput, emitted, statusCalls>>

\* mutant: ws is rebound to the new socket object whether or not it connected
ReconnectConnect_BindAlways ==
    /\ pc = "reconnect_connect"
    /\ roundConnects' = roundConnects + 1
    /\ \E connected \in BOOLEAN :
         IF connected
         THEN /\ socks' = Append(socks, "connected")
              /\ ws' = Len(socks) + 1
              /\ pc' = "listen"
              /\ UNCHANGED <<result, attempt>>
         ELSE /\ attempt' = attempt + 1
              /\ IF attempt + 1 < WEBSOCKET_RECONNECT_ATTEMPTS
                 THEN /\ pc' = "reconnect"
                      /\ socks' = Append(socks, "unconnected")
                      /\ ws' = Len(socks) + 1
                      /\ UNCHANGED result
                 ELSE Raise(ReconnectExhausted, Append(socks, "unconnected"),
                            Len(socks) + 1)
    /\ UNCHANGED <<prompt_id, execution_done, errors, output_data, bucket, history,
                   cpos, lastRecv, lastProbe, roundProbes, disconnects, fetched>>
    /\ UNCHANGED <<probe, input_images, staging, calls, jobInput, emitted, statusCalls>>

\* new_ws = websocket.WebSocket(); new_ws.connect(ws_url); on success the
\* handler rebinds ws and continues listening
ReconnectConnect ==
    /\ pc = "reconnect_connect"
    /\ roundConnects' = roundConnects + 1
    /\ \E connected \in BOOLEAN :
         IF connected
         THEN /\ socks' = Append(socks, "connected")
              /\ ws' = Len(socks) + 1
              /\ pc' = "listen"
              /\ UNCHANGED <<result, attempt>>
         ELSE /\ attempt' = attempt + 1
              /\ IF attempt + 1 < WEBSOCKET_RECONNECT_ATTEMPTS
                 THEN /\ pc' = "reconnect"
                      /\ UNCHANGED <<result, socks, ws>>
                 ELSE Raise(ReconnectExhausted, socks, ws)
    /\ UNCHANGED <<prompt_id, execution_done, errors, output_data, bucket, history,
                   cpos, lastRecv, lastProbe, roundProbes, disconnects, fetched>>
    /\ UNCHANGED <<probe, input_images, staging, calls, jobInput, emitted, statusCalls>>

(***************************************************************************)
(* The history ledger                                                      *)
(***************************************************************************)
\* an image_info of the ledger: fn is "it has a filename", type its "type"
Assets == [fn : BOOLEAN, type : {"output", "temp"}]

SeqsUpTo(S, n) == UNION {[1..k -> S] : k \in 0..n}

\* the node_outputs holding at most n images: with a (non-empty) "images"
\* list, or without that key
Containers(n) ==
    {[hasImages |-> FALSE, images |-> <<>>]}
    \cup {[hasImages |-> TRUE, images |-> s] : s \in SeqsUpTo(Assets, n) \ {<<>>}}

\* the values of history[prompt_id]["outputs"] with at most n containers and
\* at most k images
RECURSIVE LedgersUpTo(_, _)
LedgersUpTo(n, k) ==
    IF n = 0 THEN {<<>>}
    ELSE {<<>>} \cup UNION {{<<c>> \o L : L \in LedgersUpTo(n - 1, k - Len(c.images))} :
                                c \in Containers(k)}

Ledgers == LedgersUpTo(MaxContainers, MaxAssets)

\* The position of the first image at or after <<c, i>> in the nested loops
\* `for node_output in outputs` / `for image_info in node_output["images"]`;
\* <<Len(L) + 1, 1>> when the loops are over.
RECURSIVE NextImage(_, _, _)
NextImage(L, c, i) ==
    IF c > Len(L) THEN <<Len(L) + 1, 1>>
    ELSE IF L[c].hasImages /\ i <= Len(L[c].images) THEN <<c, i>>
    ELSE NextImage(L, c + 1, 1)

\* mutant: a missing prompt id is reported as an empty success
NotFound_EmptySuccess(errs) ==
    [NoResult EXCEPT !.keys = {"status", "images"}, !.status = "success_no_images"]

\* the handling of a history reply that lacks the prompt id
NotFound(errs) ==
    IF errs = <<>>
    THEN ErrorResult("Prompt ID not found in history after execution")
    ELSE ErrorDetails("Job processing failed, prompt ID not found in history.",
                      Append(errs, Err("not_found", 0, 0, None)))

\* the errors list after the check of `outputs`
NoOutputsCheck(outputs, errs) ==
    IF outputs = <<>> /\ errs = <<>>
    THEN Append(errs, Err("no_outputs", 0, 0, None))
    ELSE errs

GetHistory ==
    /\ pc = "history"
    /\ calls' = [calls EXCEPT !.history = @ + 1]
    /\ \/ /\ Raise(Exc("RequestException", "history"), socks, ws)
          /\ history' = [NoHistory EXCEPT !.reply = "error"]
          /\ UNCHANGED <<errors, cpos>>
       \/ /\ history' = [NoHistory EXCEPT !.reply = "absent"]
          /\ errors' = (IF errors = <<>> THEN errors
                        ELSE Append(errors, Err("not_found", 0, 0, None)))
          /\ Return(NotFound(errors))
          /\ UNCHANGED cpos
       \/ \E L \in Ledgers :
            /\ history' = [NoHistory EXCEPT !.reply = "present", !.outputs = L]
            /\ errors' = NoOutputsCheck(L, errors)
            /\ cpos' = NextImage(L, 1, 1)
            /\ pc' = "collect"
            /\ UNCHANGED <<result, socks, ws>>
    /\ UNCHANGED <<prompt_id, execution_done, output_data, attempt, bucket, lastRecv,
                   lastProbe, roundProbes, roundConnects, disconnects, fetched>>
    /\ UNCHANGED <<probe, input_images, staging, jobInput, emitted, statusCalls>>

(***************************************************************************)
(* Collect the output images                                               *)
(***************************************************************************)
Img(c, i, t) == [c |-> c, i |-> i, type |-> t]

\* mutant: an image_info without a filename is asked from /view all the same
Deliver_FetchUnnamed(a, c, i, hasBucket, bytes, up) ==
    IF a.type = "temp" THEN [out |-> <<>>, err |-> <<>>, fetch |-> FALSE]
    ELSE IF ~a.fn
         THEN [out |-> <<>>, err |-> <<Err("missing_filename", c, i, None)>>,
               fetch |-> TRUE]
    ELSE IF ~bytes
         THEN [out |-> <<>>, err |-> <<Err("fetch", c, i, None)>>, fetch |-> TRUE]
    ELSE IF hasBucket
         THEN IF up
              THEN [out |-> <<Img(c, i, "s3_url")>>, err |-> <<>>, fetch |-> TRUE]
              ELSE [out |-> <<>>, err |-> <<Err("s3_upload", c, i, None)>>,
                    fetch |-> TRUE]
    ELSE [out |-> <<Img(c, i, "base64")>>, err |-> <<>>, fetch |-> TRUE]

\* What the loop body does with image_info a when get_image_data answers
\* `bytes` and, where a bucket is configured, the upload answers `up`:
\* the entry appended to output_data or to errors (or neither).
Deliver(a, c, i, hasBucket, bytes, up) ==
    IF a.type = "temp" THEN [out |-> <<>>, err |-> <<>>, fetch |-> FALSE]
    ELSE IF ~a.fn
         THEN [out |-> <<>>, err |-> <<Err("missing_filename", c, i, None)>>,
               fetch |-> FALSE]
    ELSE IF ~bytes
         THEN [out |-> <<>>, err |-> <<Err("fetch", c, i, None)>>, fetch |-> TRUE]
    ELSE IF hasBucket
         THEN IF up
              THEN [out |-> <<Img(c, i, "s3_url")>>, err |-> <<>>, fetch |-> TRUE]
              ELSE [out |-> <<>>, err |-> <<Err("s3_upload", c, i, None)>>,
                    fetch |-> TRUE]
    ELSE [out |-> <<Img(c, i, "base64")>>, err |-> <<>>, fetch |-> TRUE]

CollectImage ==
    /\ pc = "collect"
    /\ cpos[1] <= Len(history.outputs)
    /\ LET c == cpos[1]
           i == cpos[2]
           a == history.outputs[c].images[i]
       IN \E bytes \in BOOLEAN, up \in BOOLEAN :
            LET d == Deliver(a, c, i, bucket, bytes, up) IN
            /\ output_data' = output_data \o d.out
            /\ errors' = errors \o d.err
            /\ fetched' = (IF d.fetch /\ bytes
                           THEN fetched \cup {[c |-> c, i |-> i, url |-> bucket /\ up]}
                           ELSE fetched)
            /\ cpos' = NextImage(history.outputs, c, i + 1)
            /\ calls' = (IF d.fetch
                         THEN [calls EXCEPT !.view = Append(@, <<c, i>>)]
                         ELSE calls)
    /\ UNCHANGED <<pc, ws, socks, prompt_id, execution_done, attempt, bucket, history,
                   result, lastRecv, lastProbe, roundProbes, roundConnects,
                   disconnects>>
    /\ UNCHANGED <<probe, input_images, staging, jobInput, emitted, statusCalls>>

(***************************************************************************)
(* The result                                                              *)
(***************************************************************************)
\* mutant: any error makes the job a failure
FinalResult_FailOnError(out, errs) ==
    IF errs # <<>>
    THEN ErrorDetails("Job processing failed", errs)
    ELSE IF out = <<>>
    THEN [NoResult EXCEPT !.keys = {"status", "images"},
                          !.status = "success_no_images"]
    ELSE [NoResult EXCEPT !.keys = {"images"}, !.images = out, !.errors = errs]

FinalResult(out, errs) ==
    IF out = <<>> /\ errs # <<>>
    THEN ErrorDetails("Job processing failed", errs)
    ELSE IF out = <<>>
    THEN [NoResult EXCEPT !.keys = {"status", "images"},
                          !.status = "success_no_images"]
    ELSE [NoResult EXCEPT
            !.keys = {"images"} \cup (IF errs # <<>> THEN {"errors"} ELSE {}),
            !.images = out, !.errors = errs]

\* the loops are over: finally clause, then the final result
Finalize ==
    /\ pc = "collect"
    /\ cpos[1] > Len(history.outputs)
    /\ Return(FinalResult(output_data, errors))
    /\ UNCHANGED <<prompt_id, execution_done, errors, output_data, attempt, bucket,
                   history, cpos, lastRecv, lastProbe, roundProbes, roundConnects,
                   disconnects, fetched>>
    /\ UNCHANGED <<probe, input_images, staging, calls, jobInput, emitted, statusCalls>>

(***************************************************************************)
(* The earlier draft, src/src/handler.py: connect, queue, a monitoring     *)
(* loop without reconnection, and a collector over the SaveImage nodes.    *)
(* It uses pc values "d_...", keeps its output_images in output_data and   *)
(* has no execution_done flag.                                             *)
(***************************************************************************)
\* the except clauses of the draft's handler()
DraftExceptResult(e) ==
    IF e.type \in {"FileNotFoundError", "ValueError"} THEN ErrorResult(e.msg)
    ELSE IF e.type = "ConnectionError" THEN ErrorResult("Could not connect to ComfyUI")
    ELSE IF e.type = "WebSocketConnectionClosedException"
         THEN ErrorResult("WebSocket connection to ComfyUI closed unexpectedly")
    ELSE ErrorResult("An unexpected error occurred")

DraftRaise(e, s, w) ==
    /\ result' = DraftExceptResult(e)
    /\ socks' = Finally(s, w)
    /\ ws' = w
    /\ pc' = "done"

InitDraft ==
    /\ pc = "d_start"
    /\ ws = 0
    /\ socks = <<>>
    /\ prompt_id = None
    /\ execution_done = FALSE
    /\ errors = <<>>
    /\ output_data = <<>>
    /\ attempt = 0
    /\ bucket = FALSE
    /\ history = NoHistory
    /\ cpos = <<1, 1, 1>>
    /\ result = NoResult
    /\ lastRecv = NoRecv
    /\ lastProbe = "none"
    /\ roundProbes = 0
    /\ roundConnects = 0
    /\ disconnects = 0
    /\ fetched = {}
    /\ probe = NoProbe
    /\ input_images = NoImages
    /\ staging = NoStaging
    /\ calls = NoCalls
    /\ jobInput = NoJobInput
    /\ emitted = "no"
    /\ statusCalls = NoStatusCalls

\* get_nodes_and_workflows_from_input and the workflow adjustments, all inside
\* the try block: job["input"] with a workflow_api or the name of an existing
\* workflow file ("ok"), the name of a missing file, neither of the two, or a
\* value the adjustments cannot index ("bad_shape"); then wait_for_comfyui()
DraftInputs == {"ok", "missing_file", "no_workflow", "bad_shape"}

\* the call wait_for_comfyui(timeout): `while time.time() - start_time < timeout`
CallWaitForComfyui(timeout) ==
    [fn |-> "wait_for_comfyui", limit |-> timeout, i |-> 0, replies |-> <<>>,
     ret |-> IF timeout <= 0 THEN "false" ELSE "none"]

\* one pass of the loop of wait_for_comfyui with the GET answering `reply`,
\* the pass (GET and time.sleep(1)) taking dt seconds
wait_for_comfyui(p, reply, dt) ==
    IF reply = "200"
    THEN [p EXCEPT !.replies = Append(@, reply), !.ret = "true"]
    ELSE [p EXCEPT !.replies = Append(@, reply), !.i = @ + dt,
                   !.ret = IF p.i + dt >= p.limit THEN "false" ELSE "none"]

DraftStart ==
    /\ pc = "d_start"
    /\ \E job_input \in DraftInputs :
         IF job_input = "ok"
         THEN /\ probe' = CallWaitForComfyui(WAIT_TIMEOUT)
              /\ pc' = "d_wait"
              /\ UNCHANGED <<result, socks, ws>>
         ELSE /\ DraftRaise(Exc(IF job_input = "missing_file" THEN "FileNotFoundError"
                                ELSE IF job_input = "no_workflow" THEN "ValueError"
                                ELSE "Exception", job_input), socks, ws)
              /\ UNCHANGED probe
    /\ UNCHANGED <<prompt_id, execution_done, errors, output_data, attempt, bucket,
                   history, cpos, lastRecv, lastProbe, roundProbes, roundConnects,
                   disconnects, fetched, input_images, staging,
                   jobInput, calls, emitted, statusCalls>>

DraftWaitGet ==
    /\ pc = "d_wait"
    /\ probe.ret = "none"
    /\ \E reply \in GetReplies, dt \in 1..2 : probe' = wait_for_comfyui(probe, reply, dt)
    /\ UNCHANGED <<pc, ws, socks, prompt_id, execution_done, errors, output_data,
                   attempt, bucket, history, cpos, result, lastRecv, lastProbe,
                   roundProbes, roundConnects, disconnects, fetched, input_images,
                   staging, jobInput, calls, emitted, statusCalls>>

\* `if not wait_for_comfyui(): raise Exception(...)`
DraftWaitReturn ==
    /\ pc = "d_wait"
    /\ probe.ret # "none"
    /\ probe' = NoProbe
    /\ IF probe.ret = "false"
       THEN DraftRaise(Exc("Exception", "ComfyUI server did not become ready."),
                       socks, ws)
       ELSE /\ pc' = "d_connect"
            /\ UNCHANGED <<result, socks, ws>>
    /\ UNCHANGED <<prompt_id, execution_done, errors, output_data, attempt, bucket,
                   history, cpos, lastRecv, lastProbe, roundProbes, roundConnects,
                   disconnects, fetched, input_images, staging,
                   jobInput, calls, emitted, statusCalls>>

\* ws = connect_to_comfyui(client_id): on a failure ws stays None
DraftConnect ==
    /\ pc = "d_connect"
    /\ \/ /\ socks' = Append(socks, "connected")
          /\ ws' = Len(socks) + 1
          /\ pc' = "d_queue"
          /\ UNCHANGED result
       \/ DraftRaise(Exc("Exception", "connect failed"), socks, ws)
    /\ UNCHANGED <<prompt_id, execution_done, errors, output_data, attempt, bucket,
                   history, cpos, lastRecv, lastProbe, roundProbes, roundConnects,
                   disconnects, fetched>>
    /\ UNCHANGED <<probe, input_images, staging, calls, jobInput, emitted, statusCalls>>

\* prompt_info = queue_prompt(...); prompt_id = prompt_info["prompt_id"]
DraftQueue ==
    /\ pc = "d_queue"
    /\ \E reply \in {"id", "no_id", "transport"} :
         /\ calls' = [calls EXCEPT !.prompt = Append(@, reply)]
         /\ IF reply = "id"
            THEN /\ prompt_id' = JobId
                 /\ pc' = "d_listen"
                 /\ UNCHANGED <<result, socks, ws>>
            ELSE /\ UNCHANGED prompt_id
                 /\ DraftRaise(Exc("Exception", reply), socks, ws)
    /\ UNCHANGED <<execution_done, errors, output_data, attempt, bucket, history, cpos,
                   lastRecv, lastProbe, roundProbes, roundConnects, disconnects, fetched>>
    /\ UNCHANGED <<probe, input_images, staging, jobInput, emitted, statusCalls>>

\* What the body of the draft's loop does with a frame: "continue", "complete"
\* (break), or the exception that leaves the handler's try block.
DraftMsgEffect(f) ==
    IF f.kind = "binary" THEN "continue"
    ELSE IF f.kind = "badjson" THEN "ValueError"
    ELSE IF f.kind = "nonobject" THEN "Exception"
    ELSE IF f.type = None THEN "Exception"
    ELSE IF f.type = "progress"
         THEN IF f.shape = "absent" THEN "Exception" ELSE "continue"
    ELSE IF f.type = "executing"
         THEN IF f.shape # "ok" THEN "Exception"
              ELSE IF f.node = None THEN "complete" ELSE "continue"
    ELSE "continue"

DraftRecvFrame ==
    /\ pc = "d_listen"
    /\ \E f \in Frames :
         LET eff == DraftMsgEffect(f) IN
         /\ lastRecv' = f
         /\ IF eff = "continue" THEN UNCHANGED <<pc, result, socks, ws>>
            ELSE IF eff = "complete"
            THEN /\ pc' = "d_history"
                 /\ UNCHANGED <<result, socks, ws>>
            ELSE DraftRaise(Exc(eff, "bad frame"), socks, ws)
    /\ UNCHANGED <<prompt_id, execution_done, errors, output_data, attempt, bucket,
                   history, cpos, lastProbe, roundProbes, roundConnects, disconnects,
                   fetched>>
    /\ UNCHANGED <<probe, input_images, staging, calls, jobInput, emitted, statusCalls>>

\* ws.recv() raises WebSocketConnectionClosedException: the handler returns
DraftRecvClosed ==
    /\ pc = "d_listen"
    /\ lastRecv' = RecvClosed
    /\ disconnects' = disconnects + 1
    /\ DraftRaise(Exc("WebSocketConnectionClosedException", "closed"),
                  [socks EXCEPT ![ws] = "closed"], ws)
    /\ UNCHANGED <<prompt_id, execution_done, errors, output_data, attempt, bucket,
                   history, cpos, lastProbe, roundProbes, roundConnects, fetched>>
    /\ UNCHANGED <<probe, input_images, staging, calls, jobInput, emitted, statusCalls>>

\* The position of the first image at or after <<o, k, i>> in the draft's loops
\* `for o in outputs` / `for node_id in output_node_ids` / `for image_data in
\* images`, where the k-th container is visited when it is a SaveImage node;
\* <<Len(L) + 1, 1, 1>> when the loops are over.
RECURSIVE DraftNextImage(_, _, _, _, _)
DraftNextImage(L, save, o, k, i) ==
    IF o > Len(L) THEN <<Len(L) + 1, 1, 1>>
    ELSE IF k > Len(L) THEN DraftNextImage(L, save, o + 1, 1, 1)
    ELSE IF k \in save /\ L[k].hasImages /\ i <= Len(L[k].images) THEN <<o, k, i>>
    ELSE DraftNextImage(L, save, o, k + 1, 1)

RECURSIVE Repeat(_, _)
Repeat(e, n) == IF n = 0 THEN <<>> ELSE <<e>> \o Repeat(e, n - 1)

\* the draft's errors list after n passes of the outer loop, each of which ends
\* with `if "errors" in history: errors.extend(history["errors"])`
LedgerErrors(lerr, n) == IF lerr THEN Repeat(Err("ledger", 0, 0, None), n) ELSE <<>>

\* history = get_history(prompt_id)[prompt_id]
DraftGetHistory ==
    /\ pc = "d_history"
    /\ calls' = [calls EXCEPT !.history = @ + 1]
    /\ \/ /\ DraftRaise(Exc("Exception", "history"), socks, ws)
          /\ history' \in {[NoHistory EXCEPT !.reply = r] : r \in {"error", "absent"}}
          /\ UNCHANGED <<cpos, errors>>
       \/ \E L \in Ledgers, save \in SUBSET (1..MaxContainers), lerr \in BOOLEAN :
            /\ save \subseteq 1..Len(L)
            /\ history' = [reply |-> "present", outputs |-> L, save |-> save, lerr |-> lerr]
            /\ cpos' = DraftNextImage(L, save, 1, 1, 1)
            /\ errors' = LedgerErrors(lerr, cpos'[1] - 1)
            /\ pc' = "d_collect"
            /\ UNCHANGED <<result, socks, ws>>
    /\ UNCHANGED <<prompt_id, execution_done, output_data, attempt, bucket,
                   lastRecv, lastProbe, roundProbes, roundConnects, disconnects, fetched>>
    /\ UNCHANGED <<probe, input_images, staging, jobInput, emitted, statusCalls>>

\* one pass of the innermost loop: get_image, upload_to_cloudflare_images
DraftCollectImage ==
    /\ pc = "d_collect"
    /\ cpos[1] <= Len(history.outputs)
    /\ LET k == cpos[2]
           i == cpos[3]
           a == history.outputs[k].images[i]
       IN \E bytes \in BOOLEAN, up \in BOOLEAN :
            /\ calls' = (IF a.fn THEN [calls EXCEPT !.view = Append(@, <<k, i>>)]
                         ELSE calls)
            /\ IF ~a.fn \/ ~bytes
               THEN /\ DraftRaise(Exc("Exception", "get_image"), socks, ws)
                    /\ UNCHANGED <<output_data, fetched, cpos, errors>>
               ELSE /\ output_data' = (IF up
                                       THEN Append(output_data, Img(k, i, "image_url"))
                                       ELSE output_data)
                    /\ fetched' = fetched \cup {[c |-> k, i |-> i, url |-> up]}
                    /\ cpos' = DraftNextImage(history.outputs, history.save,
                                              cpos[1], k, i + 1)
                    /\ errors' = LedgerErrors(history.lerr, cpos'[1] - 1)
                    /\ UNCHANGED <<pc, result, socks, ws>>
    /\ UNCHANGED <<prompt_id, execution_done, attempt, bucket, history,
                   lastRecv, lastProbe, roundProbes, roundConnects, disconnects>>
    /\ UNCHANGED <<probe, input_images, staging, jobInput, emitted, statusCalls>>

\* the draft's result: always an "images" list, "errors" when the ledger has some
DraftFinalResult(out, errs) ==
    [NoResult EXCEPT !.keys = {"images"} \cup (IF errs # <<>> THEN {"errors"} ELSE {}),
                     !.images = out, !.errors = errs]

\* the loops are over: rp_cleanup.clean_up_input_objects(...) (a library call
\* that returns or raises), return, finally clause
DraftFinalize ==
    /\ pc = "d_collect"
    /\ cpos[1] > Len(history.outputs)
    /\ \/ /\ result' = DraftFinalResult(output_data, errors)
          /\ socks' = Finally(socks, ws)
          /\ ws' = ws
          /\ pc' = "done"
       \/ DraftRaise(Exc("Exception", "rp_cleanup"), socks, ws)
    /\ UNCHANGED <<prompt_id, execution_done, errors, output_data, attempt, bucket,
                   history, cpos, lastRecv, lastProbe, roundProbes, roundConnects,
                   disconnects, fetched>>
    /\ UNCHANGED <<probe, input_images, staging, calls, jobInput, emitted, statusCalls>>

NextDraft ==
    \/ DraftStart
    \/ DraftWaitGet
    \/ DraftWaitReturn
    \/ DraftConnect
    \/ DraftQueue
    \/ DraftRecvFrame
    \/ DraftRecvClosed
    \/ DraftGetHistory
    \/ DraftCollectImage
    \/ DraftFinalize

SpecDraft == InitDraft /\ [][NextDraft]_vars

Next ==
    \/ Validate
    \/ CheckServerGet
    \/ CheckServerReturn
    \/ UploadImagesCall
    \/ UploadImagesItem
    \/ UploadImagesReturn
    \/ Connect
    \/ Queue
    \/ RecvFrame
    \/ RecvTimeoutStep
    \/ RecvClosedStep
    \/ ReconnectProbe
    \/ ReconnectConnect
    \/ GetHistory
    \/ CollectImage
    \/ Finalize

Spec == Init /\ [][Next]_vars

\* The readiness probers on their own: check_server(url, retries) and
\* wait_for_comfyui(timeout) called with any argument up to the bounds
InitProbe ==
    /\ \/ /\ pc = "check_server"
          /\ \E n \in 0..COMFY_API_AVAILABLE_MAX_RETRIES : probe = CallCheckServer(n)
       \/ /\ pc = "d_wait"
          /\ \E t \in 0..WAIT_TIMEOUT : probe = CallWaitForComfyui(t)
    /\ ws = 0
    /\ socks = <<>>
    /\ prompt_id = None
    /\ execution_done = FALSE
    /\ errors = <<>>
    /\ output_data = <<>>
    /\ attempt = 0
    /\ bucket = FALSE
    /\ history = NoHistory
    /\ cpos = <<1, 1>>
    /\ result = NoResult
    /\ lastRecv = NoRecv
    /\ lastProbe = "none"
    /\ roundProbes = 0
    /\ roundConnects = 0
    /\ disconnects = 0
    /\ fetched = {}
    /\ input_images = NoImages
    /\ staging = NoStaging
    /\ calls = NoCalls
    /\ jobInput = NoJobInput
    /\ emitted = "no"
    /\ statusCalls = NoStatusCalls

NextProbe ==
    \/ CheckServerGet
    \/ DraftWaitGet

SpecProbe == InitProbe /\ [][NextProbe]_vars

\* The backend finishes the job (or fails it) while the handler has no socket
\* open: the terminal event goes to no one, and the backend does not emit it
\* again for the socket a reconnect opens.
TerminalEventLost ==
    /\ pc \in {"reconnect", "reconnect_connect"}
    /\ emitted = "no"
    /\ emitted' = "lost"
    /\ UNCHANGED <<pc, ws, socks, prompt_id, execution_done, errors, output_data,
                   attempt, bucket, history, cpos, result, lastRecv, lastProbe,
                   roundProbes, roundConnects, disconnects, fetched, probe,
                   input_images, staging, jobInput, calls, statusCalls>>

\* The handler with a backend that may finish the job during a disconnection.
\* The handler is a sequential program whose every wait is bounded (ws.recv
\* times out, every HTTP request has a timeout), so it always takes its next
\* step: weak fairness of Next.
NextLive ==
    \/ Next
    \/ TerminalEventLost

SpecLive == Init /\ [][NextLive]_vars /\ WF_vars(Next)

\* Several jobs that call _comfy_server_status() side by side, outside any
\* handler run
InitStatus ==
    /\ pc = "comfy_server_status"
    /\ ws = 0
    /\ socks = <<>>
    /\ prompt_id = None
    /\ execution_done = FALSE
    /\ errors = <<>>
    /\ output_data = <<>>
    /\ attempt = 0
    /\ bucket = FALSE
    /\ history = NoHistory
    /\ cpos = <<1, 1>>
    /\ result = NoResult
    /\ lastRecv = NoRecv
    /\ lastProbe = "none"
    /\ roundProbes = 0
    /\ roundConnects = 0
    /\ disconnects = 0
    /\ fetched = {}
    /\ probe = NoProbe
    /\ input_images = NoImages
    /\ staging = NoStaging
    /\ calls = NoCalls
    /\ jobInput = NoJobInput
    /\ emitted = "no"
    /\ statusCalls = NoStatusCalls

NextStatus ==
    \/ \E j \in Jobs : StatusGet(j)
    \/ \E j \in Jobs : StatusReturn(j)

SpecStatus == InitStatus /\ [][NextStatus]_vars

\* both drafts of the handler
SpecBoth == (Init \/ InitDraft) /\ [][Next \/ NextDraft]_vars

(***************************************************************************)
(* Properties                                                              *)
(***************************************************************************)
\* the loop has been entered and left
LoopLeft ==
    /\ prompt_id = JobId
    /\ pc \notin {"listen", "reconnect", "reconnect_connect", "d_listen"}

\* the loop was left by its "complete" branch
LeftComplete ==
    \/ execution_done
    \/ pc \in {"d_history", "d_collect"}
    \/ pc = "done" /\ history.reply # "none" /\ ~(\E k \in 1..Len(errors) : errors[k].kind = "execution")

\* f is an 'executing' frame with node None
ExecutingNone(f) ==
    f.ev = "frame" /\ f.kind = "object" /\ f.type = "executing" /\ f.shape = "ok"
    /\ f.node = None

\* C1: the monitoring loop is left as Complete only on an 'executing' frame
\* whose node is None and whose prompt_id is this job's prompt_id; an
\* 'executing' frame with node None that names another job never ends the loop.
C1_CompleteOnlyOwnJob ==
    /\ (LoopLeft /\ LeftComplete) => (ExecutingNone(lastRecv) /\ lastRecv.pid = prompt_id)
    /\ (ExecutingNone(lastRecv) /\ lastRecv.pid # prompt_id /\ prompt_id = JobId)
           => ~LoopLeft

\* the loop was left by a matching execution_error
LeftExecutionError ==
    /\ errors # <<>>
    /\ Head(errors).kind = "execution"
    /\ lastRecv.ev = "frame" /\ lastRecv.type = "execution_error"
    /\ lastRecv.pid = prompt_id

\* the loop was left by a failed reconnect (attempts exhausted or unreachable)
LeftReconnectFailed ==
    /\ lastRecv = RecvClosed
    /\ pc = "done"
    /\ result = ErrorResult("WebSocket communication error")

\* frames that the claim says never terminate the loop
BenignFrame(f) ==
    /\ f.ev = "frame"
    /\ \/ f.kind = "binary"
       \/ f.kind = "object" /\ f.type \in {"status", "progress"}
       \/ f.kind = "object" /\ f.type \in {"executing", "execution_error"}
          /\ f.shape = "ok" /\ f.pid = OtherJobId

\* C2: the monitoring loop terminates only by reaching Complete (matching
\* executing/node None) or Failed (matching execution_error, reconnect
\* exhaustion or backend unreachable); status, progress, binary and other-job
\* frames never terminate it.
C2_LoopExitOnlyTerminal ==
    LoopLeft =>
        /\ \/ execution_done /\ ExecutingNone(lastRecv) /\ lastRecv.pid = prompt_id
           \/ LeftExecutionError
           \/ LeftReconnectFailed
        /\ ~BenignFrame(lastRecv)


\* the execution_error frame that ended the loop is still the latest frame
EndedByExecutionError ==
    /\ lastRecv.ev = "frame" /\ lastRecv.kind = "object"
    /\ lastRecv.type = "execution_error" /\ lastRecv.shape = "ok"
    /\ lastRecv.pid = prompt_id
    /\ prompt_id = JobId

\* C3: after a matching execution_error the monitor stops with one error entry
\* holding the frame's node type, node id and message, the collector still
\* runs, and every non-temp asset whose bytes were fetched is in the final
\* result together with that error entry.
C3_ErrorKeepsFetchedAssets ==
    EndedByExecutionError =>
        /\ pc \notin {"listen", "reconnect", "reconnect_connect"}
        /\ errors # <<>>
        /\ Head(errors) = Err("execution", 0, 0, lastRecv.det)
        /\ \A k \in 2..Len(errors) : errors[k].kind # "execution"
        /\ pc = "done" => history.reply # "none"
        /\ pc = "done" =>
             \A r \in fetched :
                /\ {"images", "errors"} \subseteq result.keys
                /\ \E k \in 1..Len(result.images) :
                      result.images[k].c = r.c /\ result.images[k].i = r.i
                /\ \E k \in 1..Len(result.errors) :
                      result.errors[k] = Err("execution", 0, 0, lastRecv.det)

\* C4: in a reconnect round a reachability probe precedes every connect
\* attempt, and once a probe reports unreachable the routine aborts with a
\* failure without that or any later connect attempt.
C4_ProbeBeforeEveryConnect ==
    /\ roundConnects <= roundProbes
    /\ pc = "reconnect" => roundProbes = roundConnects
    /\ pc = "reconnect_connect" => (lastProbe = "reachable" /\ roundProbes = roundConnects + 1)
    /\ lastProbe = "unreachable" =>
          /\ pc = "done"
          /\ roundConnects = roundProbes - 1
          /\ result = ErrorResult("WebSocket communication error")

\* a probe reported unreachable after one failed attempt, with budget left
C4_Witness ==
    /\ lastProbe = "unreachable"
    /\ roundConnects = 1
    /\ attempt < WEBSOCKET_RECONNECT_ATTEMPTS - 1

\* C5: for one unexpected close at most max_attempts connect attempts are made;
\* when all of them fail with the backend reachable the handler ends with a
\* top-level error result and makes no further attempt.
C5_ReconnectBudget ==
    /\ roundConnects <= WEBSOCKET_RECONNECT_ATTEMPTS
    /\ attempt <= WEBSOCKET_RECONNECT_ATTEMPTS
    /\ attempt = WEBSOCKET_RECONNECT_ATTEMPTS =>
          /\ pc = "done"
          /\ lastProbe = "reachable"
          /\ roundConnects = WEBSOCKET_RECONNECT_ATTEMPTS
          /\ result = ErrorResult("WebSocket communication error")

\* every attempt of a round failed
C5_Witness ==
    /\ attempt = WEBSOCKET_RECONNECT_ATTEMPTS
    /\ roundProbes = WEBSOCKET_RECONNECT_ATTEMPTS
    /\ pc = "done"

\* the images the collector delivers for ledger L, given the successful fetches
\* f and whether a bucket is configured: in ledger order, every image that is
\* not temp, has a filename, was fetched and (with a bucket) stored
RECURSIVE Positions(_, _)
Positions(L, c) ==
    IF c > Len(L) THEN <<>>
    ELSE [i \in 1..Len(L[c].images) |-> <<c, i>>] \o Positions(L, c + 1)

ExpectedImages(L, f, b) ==
    LET Keep(q) == /\ L[q[1]].images[q[2]].type # "temp"
                   /\ L[q[1]].images[q[2]].fn
                   /\ \E r \in f : r.c = q[1] /\ r.i = q[2] /\ (b => r.url)
        sel == SelectSeq(Positions(L, 1), Keep)
    IN [k \in 1..Len(sel) |-> Img(sel[k][1], sel[k][2], IF b THEN "s3_url" ELSE "base64")]

\* C6: an unexpected close while listening starts reconnection; after a
\* successful attempt the monitor listens on a new socket object, a matching
\* executing/None frame completes it, and the collector delivers what it
\* delivers for the same ledger without a disconnect.
C6_ReconnectResumes ==
    /\ lastRecv = RecvClosed => (pc = "reconnect" \/ roundProbes >= 1)
    /\ (pc = "listen" /\ disconnects > 0) =>
          /\ ws = disconnects + 1
          /\ socks[ws] = "connected"
          /\ \A k \in 1..(ws - 1) : socks[k] = "closed"
    /\ (execution_done /\ disconnects > 0) =>
          (ExecutingNone(lastRecv) /\ lastRecv.pid = prompt_id)
    /\ (execution_done /\ history.reply = "present") =>
          output_data = ExpectedImages(history.outputs, fetched, bucket)

\* C7: when the handler returns, no socket opened for the job is connected.
C7_NoSocketLeftConnected ==
    pc = "done" => \A k \in DOMAIN socks : socks[k] # "connected"

\* the handler returned after a reconnect, with a result holding an image
C7_Witness ==
    /\ pc = "done"
    /\ Len(socks) = 2
    /\ socks[2] = "closed"
    /\ "images" \in result.keys
    /\ result.images # <<>>

\* C8: at most one connected socket belongs to the job: a replacement exists
\* only after the previous socket has closed, and ws is rebound only to a
\* successfully connected new socket.
C8_OneLiveSocket ==
    /\ Cardinality({k \in DOMAIN socks : socks[k] = "connected"}) <= 1
    /\ \A k \in DOMAIN socks : k < Len(socks) => socks[k] = "closed"
    /\ ws = Len(socks)
    /\ Len(socks) > 1 => socks[ws] \in {"connected", "closed"}
    /\ pc \in {"reconnect", "reconnect_connect"} => socks[ws] = "closed"

\* listening on the second replacement socket
C8_Witness ==
    /\ pc = "listen"
    /\ ws = 3
    /\ socks = <<"closed", "closed", "connected">>

\* C9: when the ledger lacks the job's prompt_id the handler returns a total
\* failure (error, no images) saying so, with a recorded execution error and
\* the not-found message both in details; never an empty success.
C9_NotFoundIsFailure ==
    history.reply = "absent" =>
        /\ pc = "done"
        /\ "error" \in result.keys
        /\ "images" \notin result.keys
        /\ result.images = <<>>
        /\ IF EndedByExecutionError
           THEN /\ result.error = "Job processing failed, prompt ID not found in history."
                /\ "details" \in result.keys
                /\ result.details = <<Err("execution", 0, 0, lastRecv.det),
                                      Err("not_found", 0, 0, None)>>
           ELSE result.error = "Prompt ID not found in history after execution"

\* not found after an execution error
C9_Witness ==
    /\ history.reply = "absent"
    /\ EndedByExecutionError
    /\ Len(result.details) = 2

\* C10: when the ledger has the job's prompt_id with empty outputs and the
\* monitor ended Complete without an error, the handler returns a success
\* result with an empty images list and no error.
C10_EmptyOutputsIsSuccess ==
    (pc = "done" /\ execution_done /\ history.reply = "present"
        /\ history.outputs = <<>>) =>
        /\ "images" \in result.keys
        /\ result.images = <<>>
        /\ result.keys \cap {"error", "errors", "details"} = {}

\* the ledger asset at container c, image i
LedgerAsset(c, i) == history.outputs[c].images[i]

\* C11: whatever the ledger holds and however execution ended, no asset of
\* type temp is in the images list of the result, and no bytes are fetched
\* for it.
C11_NoTempAsset ==
    /\ \A r \in fetched : LedgerAsset(r.c, r.i).type # "temp"
    /\ \A k \in 1..Len(output_data) :
          LedgerAsset(output_data[k].c, output_data[k].i).type # "temp"
    /\ \A k \in 1..Len(result.images) :
          LedgerAsset(result.images[k].c, result.images[k].i).type # "temp"

\* C12: every asset whose bytes were fetched is in the result; when the sink
\* gave no URL for it, it is there with its bytes inlined (base64); a sink
\* failure alone never makes the job fail.
C12_SinkFallback ==
    /\ \A r \in fetched :
          \E k \in 1..Len(output_data) :
             /\ output_data[k].c = r.c
             /\ output_data[k].i = r.i
             /\ ~r.url => output_data[k].type = "base64"
    /\ (pc = "done" /\ fetched # {}) =>
          /\ "images" \in result.keys
          /\ "error" \notin result.keys
          /\ \A r \in fetched :
                \E k \in 1..Len(result.images) :
                   result.images[k].c = r.c /\ result.images[k].i = r.i

\* the set of positions <<c, i>> of the ledger L
PositionSet(L) ==
    {q \in (1..Len(L)) \X (1..MaxAssets) : q[2] <= Len(L[q[1]].images)}

\* how many entries of errs report a fetch failure of the asset at q
FetchErrorCount(errs, q) ==
    Cardinality({k \in 1..Len(errs) : errs[k] = Err("fetch", q[1], q[2], None)})

WasFetched(q) == \E r \in fetched : r.c = q[1] /\ r.i = q[2]

\* the part of C13 about the iteration: after the collection every non-temp
\* asset with a filename has been asked for, and has either its bytes or
\* exactly one fetch-failure entry
C13_EveryAssetTried ==
    (pc = "done" /\ history.reply = "present") =>
        \A q \in PositionSet(history.outputs) :
            (LedgerAsset(q[1], q[2]).type # "temp" /\ LedgerAsset(q[1], q[2]).fn) =>
                /\ FetchErrorCount(errors, q) <= 1
                /\ WasFetched(q) <=> (FetchErrorCount(errors, q) = 0)

\* C13: a fetch failure for one asset adds exactly one entry to the error list
\* and does not stop the iteration: every other non-temp asset of every
\* container is still fetched and, if fetched, delivered.
C13_FetchFailureIsolated ==
    /\ C13_EveryAssetTried
    /\ (pc = "done" /\ history.reply = "present") =>
          \A q \in PositionSet(history.outputs) :
             WasFetched(q) =>
                \E k \in 1..Len(result.images) :
                   result.images[k].c = q[1] /\ result.images[k].i = q[2]

\* C14: the final result follows the three-way policy: assets and errors give
\* both images and errors; no asset and some error give a failure with
\* details; no asset and no error give a success with an empty images list.
C14_ThreeWayPolicy ==
    (pc = "done" /\ history.reply = "present") =>
        /\ (output_data # <<>> /\ errors # <<>>) =>
              /\ result.keys = {"images", "errors"}
              /\ result.images = output_data
              /\ result.errors = errors
        /\ (output_data = <<>> /\ errors # <<>>) =>
              /\ result.keys = {"error", "details"}
              /\ result.details = errors
              /\ result.images = <<>>
        /\ (output_data = <<>> /\ errors = <<>>) =>
              /\ "images" \in result.keys
              /\ result.images = <<>>
              /\ result.keys \cap {"error", "errors", "details"} = {}

\* a job that ends with one delivered asset and one error
C14_Witness ==
    /\ pc = "done"
    /\ history.reply = "present"
    /\ Len(output_data) = 1
    /\ Len(errors) = 1
    /\ result.keys = {"images", "errors"}

\* the other two cases of the policy happen as well
C14_WitnessFailure ==
    pc = "done" /\ history.reply = "present" /\ output_data = <<>> /\ errors # <<>>
C14_WitnessEmptySuccess ==
    pc = "done" /\ history.reply = "present" /\ output_data = <<>> /\ errors = <<>>

\* a frame the monitor has no handling for: binary, not JSON, JSON that is
\* not an object, or an object whose type is unknown or missing
MalformedFrame(f) ==
    /\ f.ev = "frame"
    /\ \/ f.kind \in {"binary", "badjson", "nonobject"}
       \/ f.kind = "object" /\ f.type \in {"other", None}

\* C17: an unknown or malformed frame received while listening is discarded:
\* no error is raised or recorded, the loop does not end and the monitor
\* keeps listening.
C17_MalformedDiscarded ==
    MalformedFrame(lastRecv) =>
        /\ pc = "listen"
        /\ result = NoResult
        /\ errors = <<>>
        /\ ~execution_done

\* C18: a receive timeout while listening changes neither the socket, the job
\* id, the error list nor the completion flag, and the monitor is still
\* listening after it, however many timeouts came before.
C18_TimeoutIsNoOp ==
    [][lastRecv' = RecvTimeout =>
          /\ pc = "listen"
          /\ pc' = "listen"
          /\ UNCHANGED <<ws, socks, prompt_id, errors, execution_done, result>>]_vars

\* a timeout on the socket of a reconnect; the monitor listens on
C18_Witness ==
    /\ lastRecv = RecvTimeout
    /\ pc = "listen"
    /\ disconnects = 1
    /\ socks[ws] = "connected"

\* C15: every result the handler returns has exactly one of the two shapes:
\* an images list (optionally with errors) or an error string (optionally
\* with details), never both and never neither.
C15_OneResultShape ==
    pc = "done" =>
        /\ ("images" \in result.keys) # ("error" \in result.keys)
        /\ "errors" \in result.keys => "images" \in result.keys
        /\ "details" \in result.keys => "error" \in result.keys
        /\ "error" \in result.keys => (result.error # None /\ result.images = <<>>)

\* the input staging failed: an error result with details, before any socket
C15_Witness ==
    /\ pc = "done"
    /\ socks = <<>>
    /\ result.keys = {"error", "details"}
    /\ Len(result.details) = 1

\* the stages whose failure is structural, and where each goes on when it
\* does not fail
StructuralStages ==
    {"connect", "queue", "reconnect", "reconnect_connect", "d_connect", "d_queue"}
GoesOn(from, to) ==
    \/ from = "connect" /\ to = "queue"
    \/ from = "queue" /\ to = "listen"
    \/ from = "reconnect" /\ to = "reconnect_connect"
    \/ from = "reconnect_connect" /\ to \in {"listen", "reconnect"}
    \/ from = "d_connect" /\ to = "d_queue"
    \/ from = "d_queue" /\ to = "d_listen"

\* C16: a structural failure (initial connect, submission, reconnect exhausted,
\* backend unreachable) ends the job with a single top-level error result
\* without images; no exception leaves the handler.
C16_StructuralFailureAborts ==
    [][(pc \in StructuralStages /\ ~GoesOn(pc, pc')) =>
          /\ pc' = "done"
          /\ result'.keys = {"error"}
          /\ result'.error # None
          /\ result'.images = <<>>]_vars

\* the submission was refused: the job ended with an error on a closed socket
C16_Witness ==
    /\ pc = "done"
    /\ socks = <<"closed">>
    /\ prompt_id = None
    /\ lastRecv = NoRecv
    /\ result.keys = {"error"}

\* C19: the readiness prober never throws: whatever each liveness GET gives
\* (timeout, connection refused, another request failure, a non-200 status)
\* it goes on or returns a boolean, True when some attempt got status 200
\* and False otherwise.
C19_ProberNeverThrows ==
    probe.fn # "none" =>
        /\ pc \in {"check_server", "d_wait"}
        /\ result = NoResult
        /\ probe.ret \in {"none", "true", "false"}
        /\ probe.ret = "true" <=> \E k \in 1..Len(probe.replies) : probe.replies[k] = "200"
        /\ probe.ret = "none" => probe.i < probe.limit

\* check_server gave up after a timeout, a refused connection and a non-200
\* status
C19_Witness ==
    /\ probe.fn = "check_server"
    /\ probe.ret = "false"
    /\ probe.replies = <<"timeout", "refused", "status">>

\* C20: check_server with retries = N makes at most N GETs, returns True at
\* the first 200 without another attempt, and returns False after exactly N
\* attempts when all of them fail.
C20_ProberBounded ==
    probe.fn = "check_server" =>
        /\ Len(probe.replies) <= probe.limit
        /\ \A k \in 1..(Len(probe.replies) - 1) : probe.replies[k] # "200"
        /\ probe.ret = "true" =>
              (probe.replies # <<>> /\ probe.replies[Len(probe.replies)] = "200")
        /\ probe.ret = "false" =>
              /\ Len(probe.replies) = probe.limit
              /\ \A k \in 1..Len(probe.replies) : probe.replies[k] # "200"
        /\ probe.ret = "none" =>
              /\ Len(probe.replies) < probe.limit
              /\ \A k \in 1..Len(probe.replies) : probe.replies[k] # "200"

\* a 200 at the second of three allowed attempts
C20_Witness ==
    /\ probe.fn = "check_server"
    /\ probe.limit = 3
    /\ probe.ret = "true"
    /\ Len(probe.replies) = 2


(***************************************************************************)
(* Stage order, staging and submission                                     *)
(***************************************************************************)
\* the POST to /prompt that answered `reply` gave the handler no job id
SubmissionFailed(reply) ==
    ~queue_workflow(reply).ok \/ queue_workflow(reply).prompt_id \in {None, ""}

\* C21: the stages are gates, in the order prober, input staging, submitter,
\* monitor, collector. A step taken when the readiness probe has returned
\* not-ready ends the handler with no upload started, no socket opened and no
\* graph submitted; a step taken when input staging has returned an error ends
\* it with no socket and no submission; a submission that fails ends it with no
\* frame received and no history query. Each stage acts only at its place:
\* staging after the probe, the first socket at connect, the POST to /prompt
\* with a socket open, frames only while listening for a queued job, the
\* history query only at the history step, and nothing after the handler has
\* returned.
C21_StagesAreGates ==
    [][/\ pc \notin {"done", "raised"}
       /\ (pc = "check_server" /\ probe.ret = "false") =>
             (pc' = "done" /\ staging' = NoStaging /\ socks' = <<>> /\ calls' = NoCalls)
       /\ (pc = "upload_images" /\ staging.ret.status = "error") =>
             (pc' = "done" /\ socks' = <<>> /\ calls' = NoCalls)
       /\ (pc = "queue" /\ SubmissionFailed(calls'.prompt[Len(calls'.prompt)])) =>
             (pc' = "done" /\ lastRecv' = NoRecv /\ history' = NoHistory
              /\ calls'.history = 0)
       /\ staging' # staging => pc \in {"upload", "upload_images"}
       /\ (socks = <<>> /\ socks' # <<>>) => pc = "connect"
       /\ calls'.prompt # calls.prompt => (pc = "queue" /\ socks # <<>>)
       /\ lastRecv' # lastRecv => (pc = "listen" /\ prompt_id = JobId)
       /\ history' # history => (pc = "history" /\ lastRecv # NoRecv)
      ]_vars

\* the probe returned not-ready for a job that brought two input images
C21_Witness ==
    /\ pc = "done"
    /\ result = ErrorResult("ComfyUI server not reachable after multiple retries")
    /\ input_images.given
    /\ Len(input_images.items) = 2
    /\ calls = NoCalls
    /\ socks = <<>>

\* input staging returned an error and the handler ended without a submission
C21_WitnessStaging ==
    /\ pc = "done"
    /\ result.error = "Failed to upload one or more input images"
    /\ calls = NoCalls
    /\ socks = <<>>


\* the positions among the first n items of upload_images that failed
FailedItems(n) == {j \in 1..n : staging.outs[j] # "ok"}

\* C22: input staging is best-effort per item. While upload_images runs and
\* when it returns, every item seen so far has exactly one outcome, an item
\* whose data is not base64 has the outcome decode_error, every failed item has
\* exactly one entry in upload_errors and every other item one entry in
\* responses; the function returns only when every item of the list has been
\* processed, whatever the positions of the failing items.
C22_StagingBestEffort ==
    pc = "upload_images" =>
        LET n == Len(staging.outs)
            images == input_images.items
        IN /\ n <= Len(images)
           /\ staging.ret.status = "none" => (n < Len(images) /\ staging.k = n + 1)
           /\ staging.ret.status # "none" => n = Len(images)
           /\ \A j \in 1..n : (images[j] = "not_b64") <=> (staging.outs[j] = "decode_error")
           /\ Len(staging.upload_errors) = Cardinality(FailedItems(n))
           /\ Len(staging.responses) = n - Cardinality(FailedItems(n))
           /\ \A j \in FailedItems(n) :
                Cardinality({e \in 1..Len(staging.upload_errors) :
                                staging.upload_errors[e].i = j
                                /\ staging.upload_errors[e].kind = staging.outs[j]}) = 1
           /\ \A j \in (1..n) \ FailedItems(n) :
                Cardinality({e \in 1..Len(staging.responses) :
                                staging.responses[e].i = j}) = 1

\* the first of two items failed to decode and the second was still uploaded
C22_Witness ==
    /\ pc = "upload_images"
    /\ staging.ret.status = "error"
    /\ staging.outs = <<"decode_error", "ok">>
    /\ Len(staging.upload_errors) = 1
    /\ Len(staging.responses) = 1


\* C23: the result of input staging classifies the outcome in three ways and
\* carries the per-item error list: the success status when no item failed
\* (the empty list included), the failure status ("error", the one a list
\* whose items all failed gets) only when all items failed, and a status of its
\* own, neither of these two, when some but not all items failed.
C23_ThreeWayStagingResult ==
    (pc = "upload_images" /\ staging.ret.status # "none") =>
        LET n == Len(input_images.items)
            f == Cardinality(FailedItems(Len(staging.outs)))
        IN /\ (f = 0) <=> (staging.ret.status = "success")
           /\ (f > 0 /\ f = n) => staging.ret.status = "error"
           /\ (f > 0 /\ f < n) => staging.ret.status \notin {"success", "error"}
           /\ f > 0 => staging.ret.details = staging.upload_errors


\* replies of POST /prompt by which the backend rejects the graph: a 4xx status
\* with a structured error body; those among them that list node errors; and
\* the other failures of the request
ValidationRejections == {"400_nodes", "400_plain", "400_type_nodes", "4xx"}
WithNodeErrors == {"400_nodes", "400_type_nodes"}
TransportFailures == {"timeout", "reset", "5xx"}

\* what the claim of C24 asks of the submitter for the reply r
TwoErrorKinds(r) ==
    LET q == queue_workflow(r) IN
    /\ r \in ValidationRejections =>
          /\ ~q.ok
          /\ q.exc.type = "ValueError"
          /\ r \in WithNodeErrors => q.exc.msg = "Workflow validation failed: node errors"
          /\ pc = "done" /\ result = ErrorResult(q.exc.msg)
    /\ r \in TransportFailures =>
          /\ ~q.ok
          /\ q.exc.type \in RequestExceptions
          /\ pc = "done" /\ result = ErrorResult("Error queuing workflow")

\* C24: the submitter raises two distinguishable kinds of error. When the
\* backend rejects the graph (HTTP 4xx with a structured error body)
\* queue_workflow raises a ValueError, which carries the aggregated node
\* messages when the body lists node errors, and the handler returns its
\* message; on any other failure of the request (timeout, connection reset,
\* 5xx) it raises a requests exception, never a ValueError, which the handler
\* reports as "Error queuing workflow".
C24_TwoErrorKinds ==
    calls.prompt # <<>> => TwoErrorKinds(calls.prompt[1])

\* the same for the replies with status 400 whose body has no top-level type
C24_Status400 ==
    (calls.prompt # <<>> /\ calls.prompt[1] \notin {"4xx", "400_type_nodes"}) =>
        TwoErrorKinds(calls.prompt[1])


\* C25: nothing but the readiness prober and the socket reconnection is
\* retried. In one run of the handler the graph is POSTed to /prompt at most
\* once, GET /history is asked at most once and GET /view at most once for
\* each position of the ledger; a failed POST or a failed history query ends
\* the run, and a position whose bytes could not be fetched is not asked again.
C25_NothingRetried ==
    /\ Len(calls.prompt) <= 1
    /\ calls.history <= 1
    /\ \A a, b \in 1..Len(calls.view) : calls.view[a] = calls.view[b] => a = b
    /\ (calls.prompt # <<>> /\ SubmissionFailed(calls.prompt[1])) =>
          (pc = "done" /\ calls.history = 0 /\ calls.view = <<>>)
    /\ history.reply = "error" => (pc = "done" /\ calls.history = 1 /\ calls.view = <<>>)
    /\ \A e \in 1..Len(errors) :
          errors[e].kind = "fetch" =>
              Cardinality({a \in 1..Len(calls.view) :
                              calls.view[a] = <<errors[e].c, errors[e].i>>}) = 1

\* a finished run in which the first of two /view requests failed
C25_Witness ==
    /\ pc = "done"
    /\ Len(calls.prompt) = 1
    /\ calls.history = 1
    /\ Len(calls.view) = 2
    /\ \E e \in 1..Len(errors) :
          errors[e].kind = "fetch" /\ calls.view[1] = <<errors[e].c, errors[e].i>>


\* the places of the handler before and after the submission
BeforeSubmission == {"validate", "check_server", "upload", "upload_images", "connect",
                     "queue"}
AfterSubmission == {"listen", "reconnect", "reconnect_connect", "history", "collect"}

\* C26: the job id is unset until the submission succeeds, is assigned once,
\* from the response of POST /prompt, and never changes afterwards, reconnects
\* included; a response that holds no job id (none, or an empty one) ends the
\* job with an error before any frame is received.
C26_JobIdAssignedOnce ==
    [][/\ pc \in BeforeSubmission => prompt_id = None
       /\ pc' \in AfterSubmission => prompt_id' = JobId
       /\ prompt_id' # prompt_id =>
             /\ pc = "queue"
             /\ calls.prompt = <<>>
             /\ Len(calls'.prompt) = 1
             /\ queue_workflow(calls'.prompt[1]).ok
             /\ prompt_id' = queue_workflow(calls'.prompt[1]).prompt_id
       /\ (pc = "queue" /\ prompt_id' \in {None, ""}) =>
             /\ pc' = "done"
             /\ "error" \in result'.keys
             /\ lastRecv' = NoRecv
             /\ calls'.history = 0
      ]_vars

\* the job id is still the queued one after a reconnect bound a second socket
C26_Witness ==
    /\ pc = "listen"
    /\ disconnects >= 1
    /\ Len(socks) >= 2
    /\ prompt_id = JobId

\* the response held no job id and the job ended with an error
C26_WitnessNoId ==
    /\ pc = "done"
    /\ calls.prompt = <<"no_id">>
    /\ result = ErrorResult("Missing 'prompt_id' in queue response")
    /\ lastRecv = NoRecv


(***************************************************************************)
(* Concurrent jobs and the monitor                                         *)
(***************************************************************************)
\* C27: a job is not affected by another job handled at the same time. Every
\* variable of a run (client id, socket, job id, output list, error list) is
\* a local of handler(), so the other job reaches this one only through the
\* frames of the backend that carry the other job's id. After such a frame
\* the job is still monitoring with its socket connected: it is neither
\* complete nor failed, its error list is empty, its job id is its own and it
\* has no result.
C27_OtherJobIgnored ==
    (lastRecv.ev = "frame" /\ lastRecv.pid = OtherJobId) =>
        /\ pc \in {"listen", "d_listen"}
        /\ ~execution_done
        /\ errors = <<>>
        /\ prompt_id = JobId
        /\ result = NoResult
        /\ ws # 0 /\ socks[ws] = "connected"



\* f is the event that ends the monitoring of job pid: its 'executing' frame
\* with node None (Complete) or its execution_error (Failed)
MatchingTerminalEvent(f, pid) ==
    /\ f.ev = "frame" /\ f.kind = "object" /\ f.shape = "ok"
    /\ f.pid = pid
    /\ \/ f.type = "executing" /\ f.node = None
       \/ f.type = "execution_error"

\* C28: the history is queried, image bytes are asked for and a result with
\* images is produced only after the monitor has reached a terminal state, by
\* an event of this job; nothing of the kind happens while the handler is
\* still connecting, queuing, listening or reconnecting.
C28_CollectAfterTerminal ==
    (calls.history > 0 \/ calls.view # <<>> \/ history # NoHistory
     \/ result.images # <<>>) =>
        /\ prompt_id = JobId
        /\ MatchingTerminalEvent(lastRecv, prompt_id)
        /\ pc \notin {"connect", "queue", "listen", "reconnect", "reconnect_connect",
                      "d_connect", "d_queue", "d_listen"}

\* f is an event that ends nothing: status, progress, a type the loop does not
\* know, executing with a node, or executing / execution_error of another job
NonTerminalEvent(f) ==
    /\ f.ev = "frame"
    /\ f.kind = "object"
    /\ \/ f.type \in {"status", "progress", "other"}
       \/ f.type = "executing" /\ f.shape = "ok" /\ f.node # None
       \/ f.type \in {"executing", "execution_error"} /\ f.shape = "ok"
          /\ f.pid = OtherJobId

\* C29: handling a non-terminal event while listening leaves the error list,
\* the completion flag, the job id and the socket as they were, and the
\* handler keeps listening.
C29_NonTerminalFrame ==
    [][(pc = "listen" /\ NonTerminalEvent(lastRecv')) =>
          (pc' = "listen" /\ UNCHANGED <<errors, execution_done, prompt_id, ws, socks>>)
      ]_vars

\* the same for the events whose data, where the loop reads it, is an object
C29_WellFormedEvents ==
    [][(pc = "listen" /\ NonTerminalEvent(lastRecv')
        /\ ~(lastRecv'.type = "status" /\ lastRecv'.shape = "null")) =>
          (pc' = "listen" /\ UNCHANGED <<errors, execution_done, prompt_id, ws, socks>>)
      ]_vars


(***************************************************************************)
(* Input validation                                                        *)
(***************************************************************************)
\* the inputs the claim of C30 wants reported: no input, a string that is not
\* JSON, an object without 'workflow', and an 'images' value that is not a
\* list of objects which each have 'name' and 'image'
InvalidInput(j) ==
    \/ j.form \in {"none", "badjson_str"}
    \/ /\ j.form \in {"object_str", "dict"}
       /\ \/ ~j.workflow
          \/ j.images \in {"notlist", "baditem", "noniterable_item"}
          \/ j.images = "list" /\ \E k \in 1..Len(j.items) : j.items[k] = "str"

\* nothing of the backend has been touched
NoBackendInteraction ==
    probe = NoProbe /\ staging = NoStaging /\ calls = NoCalls /\ socks = <<>> /\ ws = 0

\* what the claim of C30 asks for the input j that validation has read
ValidatedBeforeBackend(j) ==
    LET v == validate_input(j) IN
    /\ ~v.raised => (v.given <=> v.err = None)
    /\ InvalidInput(j) => (~v.raised /\ v.err # None)
    /\ (~v.raised /\ v.err # None) =>
          (pc = "done" /\ result = ErrorResult(v.err) /\ NoBackendInteraction)

\* C30: the handler validates its input before it touches the backend.
\* validate_input returns either data and no error or no data and an error
\* message; it reports an error for a missing input, a string that is not
\* JSON, a missing 'workflow' and an 'images' value that is not a list of
\* objects each having 'name' and 'image'; and on an error the handler has
\* returned that error without probing, uploading, connecting or submitting.
C30_ValidatedBeforeBackend ==
    jobInput.form \notin {"unread", "missing_key"} => ValidatedBeforeBackend(jobInput)

\* the same for 'images' lists whose items are all objects
C30_ObjectItems ==
    (/\ jobInput.form \notin {"unread", "missing_key"}
     /\ jobInput.images # "noniterable_item"
     /\ \A k \in 1..Len(jobInput.items) : jobInput.items[k] # "str") =>
        ValidatedBeforeBackend(jobInput)


(***************************************************************************)
(* Socket before submission, reconnect rounds, delivery                    *)
(***************************************************************************)
\* C31: the socket of the job's client id is connected before the graph is
\* submitted. Whenever the handler is about to POST to /prompt its socket is
\* bound and connected and no frame has been received; once a POST has been
\* made a socket exists; and a frame is received only after a POST, hence
\* after the first connection.
C31_ConnectedBeforeSubmission ==
    /\ pc \in {"queue", "d_queue"} =>
          (ws # 0 /\ socks[ws] = "connected" /\ calls.prompt = <<>> /\ lastRecv = NoRecv)
    /\ calls.prompt # <<>> => (ws # 0 /\ socks # <<>>)
    /\ lastRecv # NoRecv => (calls.prompt # <<>> /\ socks # <<>>)
    /\ pc \in {"validate", "check_server", "upload", "upload_images", "connect",
               "d_start", "d_wait", "d_connect"} => calls.prompt = <<>>

\* the graph has been submitted over a connected first socket
C31_Witness ==
    /\ pc = "listen"
    /\ calls.prompt = <<"id">>
    /\ socks = <<"connected">>
    /\ ws = 1
    /\ lastRecv = NoRecv


\* C32: if the backend emits the job's terminal event while the socket is
\* disconnected, then after a successful reconnect the monitor does not stay
\* listening for ever: from every state where the event is lost and the
\* handler listens on the new socket, it eventually leaves the listening
\* state, by a terminal state of the monitor or because the assumption ends
\* (the socket closes again or the backend stops answering).
C32_LostEventStillTerminates ==
    (emitted = "lost" /\ pc = "listen") ~> (pc # "listen")


\* C33: the reconnect attempt budget is per disconnect, not per job.  Inside
\* every reconnect round the attempt counter equals the number of connect
\* attempts of that round alone (it started at zero at the close, whatever
\* earlier rounds used) and is below WEBSOCKET_RECONNECT_ATTEMPTS; a round
\* makes at most WEBSOCKET_RECONNECT_ATTEMPTS connect attempts; and a handler
\* that listens again after a reconnect is in no terminal state: nothing is
\* complete, no error is recorded, no result is returned.
C33_BudgetPerDisconnect ==
    /\ pc \in {"reconnect", "reconnect_connect"} =>
          (attempt = roundConnects /\ attempt < WEBSOCKET_RECONNECT_ATTEMPTS)
    /\ roundConnects <= WEBSOCKET_RECONNECT_ATTEMPTS
    /\ (pc = "listen" /\ disconnects > 0) =>
          /\ roundConnects = attempt + 1
          /\ ~execution_done /\ errors = <<>> /\ result = NoResult
          /\ socks[ws] = "connected" /\ Len(socks) = disconnects + 1

\* the second round used its whole budget after the first round had made at
\* least the connect attempt that ended it: more connect attempts than
\* WEBSOCKET_RECONNECT_ATTEMPTS in one job, and the monitor listens again
C33_Witness ==
    /\ pc = "listen" /\ disconnects = 2
    /\ roundConnects = WEBSOCKET_RECONNECT_ATTEMPTS
    /\ Len(socks) = 3
    /\ ~execution_done /\ errors = <<>> /\ result = NoResult


\* the number of assets of ledger L, and of those the ones not of type "temp"
RECURSIVE CountAssets(_, _)
CountAssets(L, nonTempOnly) ==
    IF L = <<>> THEN 0
    ELSE Cardinality({i \in 1..Len(L[1].images) :
                         ~nonTempOnly \/ L[1].images[i].type # "temp"})
         + CountAssets(Tail(L), nonTempOnly)

NoPositionTwice(out) ==
    \A m, n \in 1..Len(out) : (out[m].c = out[n].c /\ out[m].i = out[n].i) => m = n

\* C34: each asset listed in the ledger is delivered at most once.  The list
\* of delivered images, during the collection and in the result, has no more
\* entries than the ledger has non-temp assets and names no ledger position
\* twice, for ledgers of zero, one or several containers.
C34_DeliveredAtMostOnce ==
    history.reply = "present" =>
       /\ Len(output_data) <= CountAssets(history.outputs, TRUE)
       /\ NoPositionTwice(output_data)
       /\ result # NoResult => /\ Len(result.images) <= CountAssets(history.outputs, TRUE)
                               /\ NoPositionTwice(result.images)

\* the same without the type: no more entries than the ledger has assets
C34_NoMoreThanListed ==
    history.reply = "present" => Len(output_data) <= CountAssets(history.outputs, FALSE)

\* the main handler delivered every asset of a ledger of several containers
C34_WitnessMain ==
    /\ pc = "done" /\ history.reply = "present" /\ Len(history.outputs) = 2
    /\ CountAssets(history.outputs, TRUE) = 2
    /\ Len(result.images) = 2


\* the ledger positions the collection loops of the main handler have passed
Passed(c, i) ==
    /\ pc \in {"collect", "done"} /\ history.reply = "present"
    /\ c \in 1..Len(history.outputs) /\ i \in 1..Len(history.outputs[c].images)
    /\ \/ c < cpos[1]
       \/ c = cpos[1] /\ i < cpos[2]

Occurrences(s, e) == Cardinality({n \in 1..Len(s) : s[n] = e})

\* C35: a non-temp ledger asset without a filename is skipped without any
\* fetch.  Once the loops have passed it, the error list holds exactly one
\* entry for it, no GET /view was made for it, and the images list (and the
\* result) has no entry for it; the collection goes on: every asset with a
\* filename that the loops have passed, before or after it, was asked from
\* /view exactly once.
C35_MissingFilenameSkipped ==
    \A c \in 1..MaxContainers, i \in 1..MaxAssets :
       Passed(c, i) /\ history.outputs[c].images[i].type # "temp" =>
          IF history.outputs[c].images[i].fn
          THEN Occurrences(calls.view, <<c, i>>) = 1
          ELSE /\ Occurrences(errors, Err("missing_filename", c, i, None)) = 1
               /\ Occurrences(calls.view, <<c, i>>) = 0
               /\ \A n \in 1..Len(output_data) :
                     ~(output_data[n].c = c /\ output_data[n].i = i)
               /\ \A f \in fetched : ~(f.c = c /\ f.i = i)
               /\ pc = "done" =>
                     /\ result.images = output_data
                     /\ \/ output_data # <<>> /\ result.errors = errors
                        \/ output_data = <<>> /\ result.details = errors

\* the first asset has no filename, the second was fetched and delivered
C35_Witness ==
    /\ pc = "done" /\ history.reply = "present"
    /\ Len(history.outputs) = 1 /\ Len(history.outputs[1].images) = 2
    /\ history.outputs[1].images[1] = [fn |-> FALSE, type |-> "output"]
    /\ calls.view = <<<<1, 2>>>>
    /\ Len(result.images) = 1 /\ result.images[1].i = 2
    /\ result.errors = <<Err("missing_filename", 1, 1, None)>>


\* C36: whenever control leaves the monitoring loop by break, the completion
\* flag is set or the error list is non-empty, so the guard after the loop
\* never raises.  Right after the loop the last frame is one of the two that
\* break, with its flag or its error entry in place; everywhere after the
\* loop one of the two holds; and no result carries the guard's message.
C36_BreakIsConfirmed ==
    /\ pc = "history" =>
          /\ MsgEffect(lastRecv, prompt_id) \in {"complete", "error"}
          /\ MsgEffect(lastRecv, prompt_id) = "complete" => execution_done
          /\ MsgEffect(lastRecv, prompt_id) = "error" => errors # <<>>
    /\ pc \in {"history", "collect"} => (execution_done \/ errors # <<>>)
    /\ calls.history > 0 => (execution_done \/ errors # <<>>)
    /\ result # ErrorResult("Workflow monitoring loop exited without confirmation")

\* the loop was left by the break of the execution_error branch, with the
\* completion flag still unset
C36_Witness ==
    /\ pc = "history" /\ ~execution_done /\ Len(errors) = 1
    /\ lastRecv.type = "execution_error" /\ lastRecv.pid = prompt_id

\* the loop was left by the break of the 'executing' branch
C36_WitnessComplete ==
    /\ pc = "history" /\ execution_done /\ errors = <<>>
    /\ lastRecv.type = "executing" /\ lastRecv.node = None


(***************************************************************************)
(* The reachability check                                                  *)
(***************************************************************************)
\* the call of job j returns in this step
StatusReturns(j) ==
    statusCalls[j].phase = "pending" /\ statusCalls'[j].phase = "returned"

\* C37: the backend reachability check never raises and changes no state.
\* Whenever a call returns, in any interleaving with the calls of the other
\* jobs, it returns a dict and raises nothing, the dict reports reachable
\* exactly when the GET answered status 200 (unreachable for every other
\* status and for every failure of the request), and the step changes nothing
\* but the caller's own return value: the other jobs' calls and every variable
\* of the handlers are as before.
C37_StatusCheckIsPure ==
    [][\A j \in Jobs :
          StatusReturns(j) =>
             /\ ~statusCalls'[j].ret.raised
             /\ "reachable" \in statusCalls'[j].ret.keys
             /\ statusCalls'[j].ret.reachable <=> (statusCalls[j].reply = "200")
             /\ statusCalls'[j].reply = statusCalls[j].reply
             /\ statusCalls'[j].n = statusCalls[j].n
             /\ \A k \in Jobs \ {j} : statusCalls'[k] = statusCalls[k]
             /\ UNCHANGED <<pc, ws, socks, prompt_id, execution_done, errors,
                            output_data, attempt, bucket, history, cpos, result,
                            lastRecv, lastProbe, roundProbes, roundConnects,
                            disconnects, fetched, probe, input_images, staging,
                            jobInput, calls, emitted>>]_vars

\* two jobs have called the check repeatedly and side by side: one was told
\* reachable after a 200, the other unreachable after a failed request
C37_Witness ==
    /\ statusCalls[1] = [phase |-> "returned", n |-> MaxCalls, reply |-> "200",
                         ret |-> comfy_server_status("200")]
    /\ statusCalls[2].phase = "returned" /\ statusCalls[2].n = MaxCalls
    /\ statusCalls[2].reply = "exception"
    /\ ~statusCalls[2].ret.reachable /\ ~statusCalls[2].ret.raised

\* a status other than 200 is reported unreachable while another job's call
\* is pending
C37_WitnessOtherStatus ==
    /\ statusCalls[1].phase = "returned" /\ statusCalls[1].reply = "other_status"
    /\ ~statusCalls[1].ret.reachable
    /\ statusCalls[2].phase = "pending"

====
